---------------------------- MODULE Spec2Model ----------------------------
(***************************************************************************)
(* A model of gbbsmsgtool.py, the GBBS Pro message database tool: the      *)
(* 7-bit codec, the MSGINFO header parser, the message-start detector, the *)
(* date extractor, the chain follower and the bulletin and email scanners. *)
(* Text is a sequence of character codes, a byte buffer a sequence of      *)
(* numbers in 0..255; Python's 0-based half-open slices are kept.          *)
(***************************************************************************)
EXTENDS Integers, Sequences, FiniteSets, TLC

VARIABLES
    data,               \* the buffer: the bytes of the file
    pc,                 \* position of the running call
    result,             \* what scan_database gave its caller
    msginfo,            \* msginfo, as read_msginfo returned it
    total_blocks,       \* scan_database_*: total_blocks
    used_blocks,        \* scan_database_*: used_blocks
    active_messages,    \* scan_database_bulletin: active_messages
    deleted_messages,   \* scan_database_bulletin: deleted_messages
    orphaned_messages,  \* scan_database_bulletin: orphaned_messages
    deleted_all_blocks, \* scan_database_bulletin: deleted_all_blocks
    all_messages,       \* scan_database_email: all_messages
    calls,              \* history: every follow_chain_with_tracking call of the scan
    fc,                 \* the frame of a follow_chain_with_tracking call
    cd,                 \* decode_7bit: compressed_data
    stop,               \* decode_7bit: stop_at_null
    decoded             \* decode_7bit: the returned text

vars == <<data, pc, result, msginfo, total_blocks, used_blocks,
          active_messages, deleted_messages, orphaned_messages,
          deleted_all_blocks, all_messages, calls, fc, cd, stop, decoded>>

----------------------------------------------------------------------------
(* Program constants.                                                      *)

BlockSize == 128
PayloadSize == 126
HeaderSize == 8
EntrySize == 4
GroupSize == 7
EmailTag == 4
EOT == 4
MinNonNull == 10
MinProbeLen == 10
MinMessageLen == 20
MinLines == 4

(* Character codes.                                                        *)
NUL == 0
LF == 10
CR == 13
ReplacementChar == 65533

(* Python's None, and the value standing for a raised exception.           *)
None == [none |-> TRUE]
NoDate == <<>>
IndexError == "IndexError"
StructError == -1

----------------------------------------------------------------------------
(* Python sequence primitives.                                             *)

Min(a, b) == IF a < b THEN a ELSE b
Max(a, b) == IF a > b THEN a ELSE b

(* s[a:b] for 0 <= a: clipped to the sequence, empty when a >= b.          *)
Slice(s, a, b) == SubSeq(s, a + 1, Min(b, Len(s)))

(* s[i] for 0 <= i < len(s).                                               *)
At(s, i) == s[i + 1]

(* The 16-bit value read high byte first: C9 fails of it.                  *)
unpack_H_be(b) == IF Len(b) = 2 THEN b[1] * 256 + b[2] ELSE StructError

(* struct.unpack('<H', b)[0]: raises unless b holds exactly two bytes.     *)
unpack_H(b) == IF Len(b) = 2 THEN b[1] + 256 * b[2] ELSE StructError

IsDigit(c) == c \in 48..57

(* The least and the greatest number of a non-empty set of numbers.        *)
Least(S) == CHOOSE x \in S : \A y \in S : x <= y
Greatest(S) == CHOOSE x \in S : \A y \in S : x >= y

(* s.find(chr(c), i - 1) + 1: the 1-based index of the first c at or after *)
(* position i, or 0.                                                       *)
FindFrom(s, i, c) ==
    LET P == {k \in i..Len(s) : s[k] = c}
    IN  IF P = {} THEN 0 ELSE Least(P)

(* The last position of the run of characters of set that starts at i      *)
(* (i - 1 when s[i] is not in set).                                        *)
LeadingIn(s, i, set) ==
    (CHOOSE k \in i..Max(i, Len(s) + 1) :
        /\ k > Len(s) \/ s[k] \notin set
        /\ \A j \in i..(k - 1) : s[j] \in set) - 1

(* The position before the run of characters of set that ends at i.        *)
TrailingIn(s, i, set) ==
    CHOOSE k \in 0..i :
        /\ k = 0 \/ s[k] \notin set
        /\ \A j \in (k + 1)..i : s[j] \in set

(* str.isspace for the code points below 128: what str.strip() removes and *)
(* the regex class \s matches.                                             *)
Spaces == {9, 10, 11, 12, 13, 28, 29, 30, 31, 32}

(* s.lstrip(chars), s.strip()                                              *)
lstrip(s, set) == SubSeq(s, LeadingIn(s, 1, set) + 1, Len(s))
strip(s) ==
    LET t == lstrip(s, Spaces)
    IN  SubSeq(t, 1, TrailingIn(t, Len(t), Spaces))

(* s.replace(chr(c), '').                                                  *)
remove_char(s, c) == SelectSeq(s, LAMBDA x : x # c)

(* sorted(S) for a set of numbers.                                         *)
RECURSIVE sorted(_)
sorted(S) ==
    IF S = {} THEN <<>>
    ELSE LET m == Least(S)
         IN  <<m>> \o sorted(S \ {m})

(* s.split(chr(c)): the pieces between the separators, always at least     *)
(* one.                                                                    *)
split(s, c) ==
    LET seps == sorted({k \in 1..Len(s) : s[k] = c})
    IN  [n \in 1..(Len(seps) + 1) |->
            SubSeq(s, IF n = 1 THEN 1 ELSE seps[n - 1] + 1,
                      IF n > Len(seps) THEN Len(s) ELSE seps[n] - 1)]

(* ''.join(parts).                                                         *)
RECURSIVE join(_)
join(parts) == IF parts = <<>> THEN <<>> ELSE Head(parts) \o join(Tail(parts))

(* sub in s, for a non-empty sub.                                          *)
Contains(s, sub) ==
    \E i \in 1..(Len(s) - Len(sub) + 1) : SubSeq(s, i, i + Len(sub) - 1) = sub

----------------------------------------------------------------------------
(* decode_7bit                                                             *)

(* The step without the shift of char8: C11 fails of it.                   *)
char8_step_unshifted(char8, b) == IF b > 127 THEN (char8 % 128) + 128 ELSE char8

(* char8 = (char8 >> 1) | ((b & 0x80) >> 0): char8 >> 1 is below 128, so   *)
(* the bitwise or adds.                                                    *)
char8_step(char8, b) == (char8 \div 2) + (IF b > 127 THEN 128 ELSE 0)

(* for b in bytes_7, from char8 = 0: bytes_7 always holds seven bytes.      *)
char8_loop(b) ==
    char8_step(char8_step(char8_step(char8_step(char8_step(char8_step(
        char8_step(0, b[1]), b[2]), b[3]), b[4]), b[5]), b[6]), b[7])

(* chars of one group: b & 0x7F of each byte, then char8 >> 1.             *)
group_chars(bytes_7) ==
    [k \in 1..Len(bytes_7) |-> bytes_7[k] % 128] \o <<char8_loop(bytes_7) \div 2>>

(* while i + 6 < len(compressed_data)                                      *)
more_groups(compressed_data, i) == i + 6 < Len(compressed_data)

(* The text without .replace('\r', '\n'): C10 fails of it.                 *)
to_text_keep_cr(res) ==
    [k \in 1..Len(res) |-> IF res[k] > 127 THEN ReplacementChar ELSE res[k]]

(* bytes(result).decode('ascii', errors='replace').replace('\r', '\n')     *)
to_text(res) ==
    [k \in 1..Len(res) |->
        IF res[k] > 127 THEN ReplacementChar
        ELSE IF res[k] = CR THEN LF
        ELSE res[k]]

(* for c in chars: the result with the characters of one group added, up  *)
(* to the first null when the decoder stops there; z is the position of    *)
(* that null in chars, or 0.                                               *)
add_chars(res, chars, z, stop_at_null) ==
    IF stop_at_null /\ z > 0 THEN res \o SubSeq(chars, 1, z - 1)
    ELSE res \o chars

RECURSIVE decode_loop(_, _, _, _)
decode_group(compressed_data, i, res, stop_at_null, chars, z) ==
    IF stop_at_null /\ z > 0 THEN add_chars(res, chars, z, stop_at_null)
    ELSE decode_loop(compressed_data, i + GroupSize,
                     add_chars(res, chars, z, stop_at_null), stop_at_null)

decode_chars(compressed_data, i, res, stop_at_null, chars) ==
    decode_group(compressed_data, i, res, stop_at_null, chars,
                 FindFrom(chars, 1, NUL))

decode_loop(compressed_data, i, res, stop_at_null) ==
    IF more_groups(compressed_data, i)
    THEN decode_chars(compressed_data, i, res, stop_at_null,
                      group_chars(Slice(compressed_data, i, i + GroupSize)))
    ELSE res

decode_7bit(compressed_data, stop_at_null) ==
    to_text(decode_loop(compressed_data, 0, <<>>, stop_at_null))


----------------------------------------------------------------------------
(* detect_format and read_msginfo                                          *)

(* data[0] raises IndexError on an empty buffer.                           *)
detect_format(d) ==
    IF Len(d) = 0 THEN IndexError
    ELSE IF At(d, 0) = EmailTag THEN "email" ELSE "bulletin"

read_msginfo(d) ==
    IF Len(d) < HeaderSize THEN None
    ELSE [ bitmap_blocks   |-> At(d, 0),
           dir_blocks      |-> At(d, 1),
           used_blocks     |-> unpack_H(Slice(d, 2, 4)),
           msg_count       |-> unpack_H(Slice(d, 4, 6)),
           new_msg_num     |-> unpack_H(Slice(d, 6, 8)),
           bitmap_offset   |-> HeaderSize,
           dir_offset      |-> HeaderSize + At(d, 0) * BlockSize,
           data_offset     |-> HeaderSize + At(d, 0) * BlockSize
                                          + At(d, 1) * BlockSize,
           max_dir_entries |-> (At(d, 1) * BlockSize) \div EntrySize ]

----------------------------------------------------------------------------
(* is_message_start                                                        *)

Str_Date == <<68, 97, 116, 101>>         \* 'Date'
Str_Arrow == <<45, 62>>                  \* '->'
Ch_Colon == 58
Ch_Comma == 44
Ch_Slash == 47
Ch_Dash == 45
Ch_Gt == 62

(* re.match(r'^\d+,', line)                                                *)
match_digits_comma(line) ==
    LET n == LeadingIn(line, 1, 48..57)
    IN  n >= 1 /\ n < Len(line) /\ line[n + 1] = Ch_Comma

(* Lines 166-183: the tests on the lines of the text.                      *)
header_lines(lines) ==
    IF Len(lines) < MinLines THEN FALSE
    ELSE IF ~(match_digits_comma(At(lines, 1))
              /\ match_digits_comma(At(lines, 2))) THEN FALSE
    ELSE IF ~(Contains(At(lines, 3), Str_Date)
              /\ (Contains(At(lines, 3), <<Ch_Colon>>)
                  \/ Contains(At(lines, 3), Str_Arrow))) THEN FALSE
    ELSE TRUE

is_message_start(decoded_text) == header_lines(split(decoded_text, LF))

----------------------------------------------------------------------------
(* parse_date                                                              *)

(* The value of a run of n digits of s starting at 1-based position i.     *)
RECURSIVE Num(_, _, _)
Num(s, i, n) == IF n = 0 THEN 0 ELSE Num(s, i, n - 1) * 10 + (s[i + n - 1] - 48)

(* \d{1,2} followed by the character c: the number of digits taken, or 0.  *)
Digits12(s, i, c) ==
    LET n == LeadingIn(s, i, 48..57) - (i - 1)
    IN  IF n \in {1, 2} /\ i + n <= Len(s) /\ s[i + n] = c THEN n ELSE 0

(* \d{2}\s+ : the position after the white space, or 0.                    *)
Digits2Spaces(s, i) ==
    LET n == LeadingIn(s, i, 48..57) - (i - 1)
        e == LeadingIn(s, i + 2, Spaces)
    IN  IF n = 2 /\ e >= i + 2 THEN e + 1 ELSE 0

DaysIn(y, m) ==
    IF m \in {4, 6, 9, 11} THEN 30
    ELSE IF m = 2
         THEN (IF y % 4 = 0 /\ (y % 100 # 0 \/ y % 400 = 0) THEN 29 ELSE 28)
    ELSE 31

(* datetime.strptime(date_str, "%m/%d/%y %I:%M:%S %p"), None standing for  *)
(* the ValueError the caller swallows. A field of the format takes the     *)
(* digits the pattern captured: 1[0-2]|0[1-9]|[1-9] for %m and %I,         *)
(* 3[01]|[12]\d|0[1-9]|[1-9] for %d, [0-5]\d for %M, 6[01]|[0-5]\d for %S  *)
(* (60 and 61 are then refused by datetime).                               *)
strptime(mo, mon, dd, dn, yy, hh, hn, mi, ss, pm) ==
    LET year == IF yy <= 68 THEN 2000 + yy ELSE 1900 + yy
        hour == (hh % 12) + (IF pm THEN 12 ELSE 0)
    IN  IF /\ mo \in 1..12
           /\ dd \in 1..31
           /\ hh \in 1..12
           /\ mi \in 0..59
           /\ ss \in 0..59
           /\ dd <= DaysIn(year, mo)
        THEN <<year, mo, dd, hour, mi, ss>>
        ELSE NoDate

NoMatch == <<-1>>

(* The match of <sep>\s*(\d{1,2}/\d{1,2}/\d{2})\s+(\d{1,2}:\d{2}:\d{2})\s+ *)
(* ([AP]M) at position i0, which follows the separator: the parsed date,    *)
(* NoDate when strptime refuses it, NoMatch when the pattern fails. Each    *)
(* piece of the pattern hands the fields captured so far (got) and the      *)
(* position reached to the next.                                            *)
stamp_ampm(s, got, v, w) ==
    IF w = 0 THEN NoMatch
    ELSE IF ~(w + 1 <= Len(s) /\ s[w] \in {65, 80} /\ s[w + 1] = 77)
         THEN NoMatch
    ELSE strptime(got[1], got[2], got[3], got[4], got[5], got[6], got[7],
                  got[8], Num(s, v, 2), s[w] = 80)

stamp_second(s, got, u) ==
    IF ~(u + 2 <= Len(s) /\ IsDigit(s[u]) /\ IsDigit(s[u + 1])
           /\ s[u + 2] = Ch_Colon)
    THEN NoMatch
    ELSE stamp_ampm(s, got \o <<Num(s, u, 2)>>, u + 3, Digits2Spaces(s, u + 3))

stamp_minute(s, got, t, n3) ==
    IF n3 = 0 THEN NoMatch
    ELSE stamp_second(s, got \o <<Num(s, t, n3), n3>>, t + n3 + 1)

stamp_hour(s, got, k, t) ==
    IF t = 0 THEN NoMatch
    ELSE stamp_minute(s, got \o <<Num(s, k, 2)>>, t, Digits12(s, t, Ch_Colon))

stamp_year(s, got, j, n2) ==
    IF n2 = 0 THEN NoMatch
    ELSE stamp_hour(s, got \o <<Num(s, j, n2), n2>>, j + n2 + 1,
                    Digits2Spaces(s, j + n2 + 1))

stamp_day(s, i, n1) ==
    IF n1 = 0 THEN NoMatch
    ELSE stamp_year(s, <<Num(s, i, n1), n1>>, i + n1 + 1,
                    Digits12(s, i + n1 + 1, Ch_Slash))

stamp_month(s, i) == stamp_day(s, i, Digits12(s, i, Ch_Slash))

match_stamp(s, i0) == stamp_month(s, LeadingIn(s, i0, Spaces) + 1)

(* 'Date\s*' at position p, then the separator: [:-] (arrow = FALSE) or    *)
(* '->' (arrow = TRUE); the position after the separator, or 0.            *)
prefix_sep(s, q, arrow) ==
    IF arrow
    THEN (IF q + 1 <= Len(s) /\ s[q] = Ch_Dash /\ s[q + 1] = Ch_Gt
          THEN q + 2 ELSE 0)
    ELSE (IF q <= Len(s) /\ s[q] \in {Ch_Colon, Ch_Dash} THEN q + 1 ELSE 0)

match_prefix(s, p, arrow) ==
    IF p + 3 > Len(s) \/ SubSeq(s, p, p + 3) # Str_Date THEN 0
    ELSE prefix_sep(s, LeadingIn(s, p + 4, Spaces) + 1, arrow)

(* The pattern matched at position p: the date, NoDate or NoMatch.         *)
match_after(s, a) == IF a = 0 THEN NoMatch ELSE match_stamp(s, a)

match_at(s, p, arrow) == match_after(s, match_prefix(s, p, arrow))

(* re.search: the match at the leftmost position where the pattern matches.*)
leftmost(s, arrow, P) ==
    IF P = {} THEN NoMatch ELSE match_at(s, Least(P), arrow)

search_date(s, arrow) ==
    leftmost(s, arrow, {p \in 1..Len(s) : /\ s[p] = Str_Date[1]
                                          /\ match_at(s, p, arrow) # NoMatch})

(* for pattern in patterns: the first pattern that matches and whose match *)
(* strptime accepts gives the date; a ValueError moves on to the next.      *)
date_or(m, otherwise) == IF m # NoMatch /\ m # NoDate THEN m ELSE otherwise

parse_date(text) ==
    date_or(search_date(text, FALSE), date_or(search_date(text, TRUE), NoDate))

(* datetime.min, the sort key of a message without a date.                 *)
datetime_min == <<1, 1, 1, 0, 0, 0>>

RECURSIVE TupleLess(_, _)
TupleLess(a, b) ==
    IF a = <<>> THEN FALSE
    ELSE IF Head(a) # Head(b) THEN Head(a) < Head(b)
    ELSE TupleLess(Tail(a), Tail(b))

sort_key(x) == IF x.date # NoDate THEN x.date ELSE datetime_min

(* list.sort(key=...): a stable sort, here by insertion from the left.     *)
RECURSIVE insert_sorted(_, _)
insert_sorted(msgs, x) ==
    IF msgs = <<>> THEN <<x>>
    ELSE IF TupleLess(sort_key(x), sort_key(msgs[Len(msgs)]))
         THEN insert_sorted(SubSeq(msgs, 1, Len(msgs) - 1), x)
                  \o <<msgs[Len(msgs)]>>
         ELSE msgs \o <<x>>

(* A list left as it was built: C13 fails of it.                           *)
unsorted(msgs) == msgs

RECURSIVE sort_by_date(_)
sort_by_date(msgs) ==
    IF msgs = <<>> THEN <<>>
    ELSE insert_sorted(sort_by_date(SubSeq(msgs, 1, Len(msgs) - 1)),
                       msgs[Len(msgs)])

----------------------------------------------------------------------------
(* follow_chain_with_tracking                                              *)

(* The frame of a call. walk and appended are history: the blocks in the   *)
(* order the loop marked them visited, and the blocks whose text it        *)
(* appended to message_parts, in order.                                    *)
follow_enter(start_block, total, stop_blocks, data_offset) ==
    [ start_block   |-> start_block,
      total_blocks  |-> total,
      stop_blocks   |-> stop_blocks,
      data_offset   |-> data_offset,
      message_parts |-> <<>>,
      current_block |-> start_block,
      visited       |-> {},
      blocks_used   |-> {},
      first_block   |-> TRUE,
      walk          |-> <<>>,
      appended      |-> <<>>,
      full_message  |-> <<>>,
      pc            |-> "loop" ]

(* The loop test without 'not in visited': C2 fails of it.                 *)
loop_guard_nonzero(f) == f.current_block # 0

(* while current_block != 0 and current_block not in visited               *)
loop_guard(f) == f.current_block # 0 /\ f.current_block \notin f.visited

(* The loop without the test of stop_blocks: C3 fails of it.               *)
stop_check_never(f) == FALSE

(* A test of stop_blocks made of the start block only: C15 fails of it.    *)
stop_check_first_only(f) == f.first_block /\ f.current_block \in f.stop_blocks

(* if current_block in stop_blocks: break                                  *)
stop_check(f) == f.current_block \in f.stop_blocks

(* The loop without the test of the range: C12 fails of it.                *)
out_of_range_never(d, f) == FALSE

(* if block_offset + 128 > len(data) or current_block > total_blocks       *)
out_of_range(d, f) ==
    \/ f.data_offset + (f.current_block - 1) * BlockSize + BlockSize > Len(d)
    \/ f.current_block > f.total_blocks

(* A loop that takes a message start for a continuation: C17 fails of it.  *)
false_continuation_never(f, text) == FALSE

(* if not first_block and is_message_start(decoded): break                 *)
false_continuation(f, text) == ~f.first_block /\ is_message_start(text)

(* The self-reference probe of the next sequential block: lines 448-454.   *)
probe_text(next_seq_decoded) ==
    /\ ~is_message_start(next_seq_decoded)
    /\ Len(strip(next_seq_decoded)) > MinProbeLen

probe_block(d, next_seq_offset) ==
    /\ next_seq_offset + BlockSize <= Len(d)
    /\ probe_text(decode_7bit(Slice(d, next_seq_offset,
                                    next_seq_offset + PayloadSize), FALSE))

(* A probe that never goes on to the next block: C4 fails of it.           *)
probe_never(d, f, next_sequential) == FALSE

probe(d, f, next_sequential) ==
    /\ next_sequential <= f.total_blocks
    /\ next_sequential \notin f.stop_blocks
    /\ probe_block(d, f.data_offset + (next_sequential - 1) * BlockSize)

(* break                                                                   *)
follow_break(f) == [f EXCEPT !.pc = "join"]

(* visited.add(current_block); blocks_used.add(current_block)              *)
mark_visited(f) ==
    [f EXCEPT !.visited = @ \cup {f.current_block},
              !.blocks_used = @ \cup {f.current_block},
              !.walk = Append(@, f.current_block)]

(* Lines 437-441: message_parts.append(decoded), of a continuation block   *)
(* without its leading nulls.                                              *)
append_part(f, text) ==
    [f EXCEPT !.message_parts =
                  Append(@, IF f.first_block THEN text ELSE lstrip(text, {NUL})),
              !.appended = Append(@, f.current_block),
              !.first_block = FALSE]

(* Lines 443-462: where the next-pointer leads.                            *)
follow_next(d, f, next_block) ==
    IF next_block = 0 THEN follow_break(f)
    ELSE IF next_block = f.current_block
         THEN (IF probe(d, f, f.current_block + 1)
               THEN [f EXCEPT !.current_block = f.current_block + 1]
               ELSE follow_break(f))
    ELSE IF next_block \in f.visited THEN follow_break(f)
    ELSE [f EXCEPT !.current_block = next_block]

(* Lines 431-462: the block read, from its decoded text on.                *)
follow_decoded(d, f, next_block, text) ==
    IF false_continuation(f, text) THEN follow_break(f)
    ELSE follow_next(d, append_part(f, text), next_block)

(* struct.unpack raises struct.error out of the call.                      *)
follow_raise(f) == [f EXCEPT !.pc = "raised"]

(* Lines 428-431: the payload and the next-pointer read off the block.     *)
follow_read(d, f, block_offset, next_block) ==
    IF next_block = StructError THEN follow_raise(f)
    ELSE follow_decoded(d, f, next_block,
                        decode_7bit(Slice(d, block_offset,
                                          block_offset + PayloadSize), FALSE))

follow_block(d, f, block_offset) ==
    IF out_of_range(d, f) THEN follow_break(f)
    ELSE follow_read(d, f, block_offset,
                     unpack_H(Slice(d, block_offset + PayloadSize,
                                    block_offset + BlockSize)))

(* One pass through the loop, its test included: lines 416-462.            *)
follow_iter(d, f) ==
    IF ~loop_guard(f) THEN follow_break(f)
    ELSE IF stop_check(f) THEN follow_break(f)
    ELSE follow_block(d, mark_visited(f),
                      f.data_offset + (f.current_block - 1) * BlockSize)

(* A return that leaves the joined text whole: C22 fails of it.            *)
uncut(full_message, null_pos) == full_message

(* Lines 464-469: join the parts and cut at the first null.                *)
cut_at_null(full_message, null_pos) ==
    IF null_pos > 0 THEN SubSeq(full_message, 1, null_pos - 1)
    ELSE full_message

joined(full_message) == cut_at_null(full_message, FindFrom(full_message, 1, NUL))

follow_return(f) ==
    [f EXCEPT !.full_message = joined(join(f.message_parts)), !.pc = "done"]

(* The whole call: the frame it ends in, holding full_message and          *)
(* blocks_used.                                                            *)
RECURSIVE follow_run(_, _)
follow_run(d, f) ==
    IF f.pc = "loop" THEN follow_run(d, follow_iter(d, f))
    ELSE IF f.pc = "raised" THEN f
    ELSE follow_return(f)

follow_chain_with_tracking(d, start_block, total, stop_blocks, data_offset) ==
    follow_run(d, follow_enter(start_block, total, stop_blocks, data_offset))

----------------------------------------------------------------------------
(* The loops of the two scanners.                                          *)

(* The collections a scanner fills: used_blocks, the message lists and     *)
(* deleted_all_blocks, and as history every follow_chain_with_tracking     *)
(* call it made.                                                           *)
Collections(used, active, deleted, orphaned, deleted_all, all, history) ==
    [ used_blocks        |-> used,
      active_messages    |-> active,
      deleted_messages   |-> deleted,
      orphaned_messages  |-> orphaned,
      deleted_all_blocks |-> deleted_all,
      all_messages       |-> all,
      calls              |-> history ]

(* A call as the history keeps it: the loop it was made from, the entry    *)
(* (phase 1, email) or -1, the start block, the stop set, and what the     *)
(* call returned and did.                                                  *)
Call(phase, entry, block_num, stop_blocks, r) ==
    [ phase |-> phase, entry |-> entry, block |-> block_num,
      stop_blocks |-> stop_blocks, message |-> r.full_message,
      blocks |-> r.blocks_used, appended |-> r.appended, walk |-> r.walk ]

(* all_blocks - used_blocks, all_blocks = set(range(1, total_blocks + 1))  *)
unused_blocks(total, used) == (1..total) \ used

(* Lines 201-207 and 346-353: the directory loop is over when the entries  *)
(* are used up or the next one does not lie inside the file.               *)
dir_loop_over(d, mi, n) ==
    \/ n >= mi.max_dir_entries
    \/ mi.dir_offset + n * EntrySize + EntrySize > Len(d)
    \/ Len(Slice(d, mi.dir_offset + n * EntrySize,
                 mi.dir_offset + n * EntrySize + EntrySize)) < EntrySize

(* block_num = struct.unpack('<H', entry[2:4])[0]                          *)
dir_block_num(d, mi, n) ==
    unpack_H(Slice(Slice(d, mi.dir_offset + n * EntrySize,
                         mi.dir_offset + n * EntrySize + EntrySize), 2, 4))

(* Phase 1 without the test of the range: C8 fails of it.                  *)
phase1_skips_unused_only(block_num, total) == block_num = 0

(* Lines 210-215: the slots phase 1 passes over.                           *)
phase1_skips(block_num, total) == block_num = 0 \/ block_num > total

(* used_blocks, were the chain's blocks not added to it: C1 fails of it.   *)
update_forgets(used, chain_blocks) == used

(* used_blocks.update(chain_blocks)                                        *)
update(used, chain_blocks) == used \cup chain_blocks

(* PHASE 1: lines 199-227.                                                 *)
phase1_record(entry_num, block_num, acc, r) ==
    [acc EXCEPT
        !.used_blocks = update(@, r.blocks_used),
        !.active_messages =
            Append(@, [ entry   |-> entry_num,
                        block   |-> block_num,
                        message |-> r.full_message,
                        date    |-> parse_date(r.full_message) ]),
        !.calls = Append(@, Call("active", entry_num, block_num,
                                 acc.used_blocks, r))]

(* A phase 1 whose calls are told of no claims: C20 fails of it.            *)
phase1_body_blind(d, mi, total, entry_num, block_num, acc) ==
    phase1_record(entry_num, block_num, acc,
                  follow_chain_with_tracking(d, block_num, total, {},
                                             mi.data_offset))

phase1_body(d, mi, total, entry_num, block_num, acc) ==
    phase1_record(entry_num, block_num, acc,
                  follow_chain_with_tracking(d, block_num, total,
                                             acc.used_blocks, mi.data_offset))

(* for entry_num in range(max_entries): the loop runs to the first entry   *)
(* at which it breaks (loop_end), and does its body on the entries it      *)
(* does not pass over, in ascending order.                                 *)
loop_end(d, mi) ==
    Least({n \in 0..mi.max_dir_entries : dir_loop_over(d, mi, n)})

phase1_entries(d, mi, total) ==
    sorted({n \in 0..(loop_end(d, mi) - 1) :
               ~phase1_skips(dir_block_num(d, mi, n), total)})

RECURSIVE phase1_loop(_, _, _, _, _)
phase1_loop(d, mi, total, todo, acc) ==
    IF todo = <<>> THEN acc
    ELSE phase1_loop(d, mi, total, Tail(todo),
                     phase1_body(d, mi, total, Head(todo),
                                 dir_block_num(d, mi, Head(todo)), acc))

(* Lines 236-246 and 269-279: the blocks phases 2 and 3 pass over before   *)
(* decoding.                                                               *)
non_null_count(block_data) ==
    Cardinality({k \in 1..Len(block_data) : block_data[k] # 0})

too_sparse(d, data_offset, block_num) ==
    \/ data_offset + (block_num - 1) * BlockSize + BlockSize > Len(d)
    \/ non_null_count(Slice(d, data_offset + (block_num - 1) * BlockSize,
                            data_offset + (block_num - 1) * BlockSize
                                + PayloadSize)) < MinNonNull

(* A phase 2 that takes every block with data: C18 fails of it.            *)
deleted_start_any(d, data_offset, block_num) == TRUE

(* Lines 248-250: phase 2 takes only a block that starts a message.        *)
deleted_start(d, data_offset, block_num) ==
    is_message_start(
        decode_7bit(Slice(d, data_offset + (block_num - 1) * BlockSize,
                          data_offset + (block_num - 1) * BlockSize
                              + PayloadSize), TRUE))

(* PHASE 2: lines 229-262, the loop over sorted(unused_blocks).            *)
phase2_record(block_num, acc, r) ==
    [acc EXCEPT
        !.used_blocks = update(@, r.blocks_used),
        !.deleted_all_blocks = @ \cup r.blocks_used,
        !.deleted_messages =
            Append(@, [ block   |-> block_num,
                        message |-> r.full_message,
                        date    |-> parse_date(r.full_message) ]),
        !.calls = Append(@, Call("deleted", -1, block_num, acc.used_blocks, r))]

phase2_body(d, mi, total, block_num, acc) ==
    IF block_num \in acc.used_blocks THEN acc
    ELSE IF too_sparse(d, mi.data_offset, block_num) THEN acc
    ELSE IF ~deleted_start(d, mi.data_offset, block_num) THEN acc
    ELSE phase2_record(block_num, acc,
                       follow_chain_with_tracking(d, block_num, total,
                                                  acc.used_blocks,
                                                  mi.data_offset))

RECURSIVE phase2_loop(_, _, _, _, _)
phase2_loop(d, mi, total, todo, acc) ==
    IF todo = <<>> THEN acc
    ELSE phase2_loop(d, mi, total, Tail(todo),
                     phase2_body(d, mi, total, Head(todo), acc))

(* PHASE 3: lines 264-288.                                                 *)
phase3_record(block_num, acc, r) ==
    [acc EXCEPT
        !.used_blocks = update(@, r.blocks_used),
        !.orphaned_messages =
            Append(@, [ block |-> block_num, message |-> r.full_message ]),
        !.calls = Append(@, Call("orphaned", -1, block_num, acc.used_blocks, r))]

(* A phase 3 that takes no block: C19 fails of it.                         *)
phase3_none(d, mi, total, block_num, acc) == acc

phase3_body(d, mi, total, block_num, acc) ==
    IF block_num \in acc.used_blocks THEN acc
    ELSE IF too_sparse(d, mi.data_offset, block_num) THEN acc
    ELSE phase3_record(block_num, acc,
                       follow_chain_with_tracking(d, block_num, total,
                                                  acc.used_blocks,
                                                  mi.data_offset))

RECURSIVE phase3_loop(_, _, _, _, _)
phase3_loop(d, mi, total, todo, acc) ==
    IF todo = <<>> THEN acc
    ELSE phase3_loop(d, mi, total, Tail(todo),
                     phase3_body(d, mi, total, Head(todo), acc))

(* Lines 298-309: the blocks the next-pointers lead to from one active     *)
(* message's block.                                                        *)
RECURSIVE active_walk(_, _, _, _, _)
active_walk(d, data_offset, next_block, visited, found) ==
    IF next_block # 0 /\ next_block \notin visited
    THEN (IF data_offset + (next_block - 1) * BlockSize + BlockSize > Len(d)
          THEN found \cup {next_block}
          ELSE active_walk(d, data_offset,
                           unpack_H(Slice(d, data_offset
                                             + (next_block - 1) * BlockSize
                                             + PayloadSize,
                                          data_offset
                                             + (next_block - 1) * BlockSize
                                             + BlockSize)),
                           visited \cup {next_block},
                           found \cup {next_block}))
    ELSE found

active_chain(d, data_offset, block) ==
    IF data_offset + (block - 1) * BlockSize + BlockSize <= Len(d)
    THEN active_walk(d, data_offset,
                     unpack_H(Slice(d, data_offset + (block - 1) * BlockSize
                                       + PayloadSize,
                                    data_offset + (block - 1) * BlockSize
                                       + BlockSize)),
                     {block}, {block})
    ELSE {block}

(* Lines 293-309.                                                          *)
active_all(d, data_offset, msgs) ==
    UNION {active_chain(d, data_offset, msgs[i].block) : i \in 1..Len(msgs)}

Blocks(msgs) == {msgs[i].block : i \in 1..Len(msgs)}

(* Lines 290-323: what scan_database_bulletin returns.                     *)
bulletin_result(d, mi, total, acc, sorted_deleted) ==
    [ format             |-> "bulletin",
      msginfo            |-> mi,
      total_blocks       |-> total,
      active_all_blocks  |-> active_all(d, mi.data_offset, acc.active_messages),
      deleted_all_blocks |-> acc.deleted_all_blocks,
      allocated_blocks   |-> Blocks(acc.active_messages),
      deleted_blocks     |-> Blocks(sorted_deleted),
      orphaned_blocks    |-> Blocks(acc.orphaned_messages),
      active_messages    |-> acc.active_messages,
      deleted_messages   |-> sorted_deleted,
      orphaned_messages  |-> acc.orphaned_messages ]

(* cmd_analyze, lines 520-537: the block breakdown it prints of a bulletin *)
(* scan's result.                                                          *)
active_header_blocks(r) == Blocks(r.active_messages)

active_chain_blocks(r) == r.active_all_blocks \ active_header_blocks(r)

deleted_header_blocks(r) == Blocks(r.deleted_messages)

deleted_chain_blocks(r) == r.deleted_all_blocks \ deleted_header_blocks(r)

all_used(r) ==
    r.active_all_blocks \cup r.deleted_all_blocks \cup r.orphaned_blocks

analyze_unused_blocks(r) == r.total_blocks - Cardinality(all_used(r))

(* msg.replace('\x00', '').strip()                                         *)
clean(msg) == strip(remove_char(msg, NUL))

(* The length test with <= for <: C7 fails of it.                          *)
too_short_or_twenty(msg) == Len(msg) <= MinMessageLen

(* if len(msg) < 20: continue                                              *)
too_short(msg) == Len(msg) < MinMessageLen

(* Lines 367-380: the records of one user's chain text, in order.          *)
user_record(user_id, msg) ==
    IF too_short(msg) THEN <<>>
    ELSE <<[ user_id   |-> user_id,
             user_info |-> None,
             message   |-> msg,
             date      |-> parse_date(msg) ]>>

RECURSIVE user_records(_, _)
user_records(user_id, messages) ==
    IF messages = <<>> THEN <<>>
    ELSE user_record(user_id, clean(Head(messages)))
             \o user_records(user_id, Tail(messages))

user_messages(user_id, chain_text) == user_records(user_id, split(chain_text, EOT))

(* Lines 345-380: the loop over the directory of a mailbox store.          *)
email_record(user_id, block_num, acc, r) ==
    [acc EXCEPT
        !.used_blocks = update(@, r.blocks_used),
        !.all_messages = @ \o user_messages(user_id, r.full_message),
        !.calls = Append(@, Call("user", user_id, block_num, {}, r))]

(* A loop whose calls stop at the blocks of earlier users: C23 fails of it. *)
email_body_claiming(d, mi, total, user_id, block_num, acc) ==
    email_record(user_id, block_num, acc,
                 follow_chain_with_tracking(d, block_num, total,
                                            acc.used_blocks, mi.data_offset))

email_body(d, mi, total, user_id, block_num, acc) ==
    email_record(user_id, block_num, acc,
                 follow_chain_with_tracking(d, block_num, total, {},
                                            mi.data_offset))

(* if block_num == 0: continue                                             *)
email_skips(block_num) == block_num = 0

email_entries(d, mi) ==
    sorted({n \in 0..(loop_end(d, mi) - 1) :
               ~email_skips(dir_block_num(d, mi, n))})

RECURSIVE email_loop(_, _, _, _, _)
email_loop(d, mi, total, todo, acc) ==
    IF todo = <<>> THEN acc
    ELSE email_loop(d, mi, total, Tail(todo),
                    email_body(d, mi, total, Head(todo),
                               dir_block_num(d, mi, Head(todo)), acc))

(* Lines 382-395: all_messages.sort(...) and what scan_database_email      *)
(* returns.                                                                *)
email_result(mi, total, acc, sorted_messages) ==
    [ format            |-> "email",
      msginfo           |-> mi,
      total_blocks      |-> total,
      allocated_blocks  |-> acc.used_blocks,
      deleted_blocks    |-> {},
      orphaned_blocks   |-> {},
      active_messages   |-> sorted_messages,
      deleted_messages  |-> <<>>,
      orphaned_messages |-> <<>> ]

----------------------------------------------------------------------------
(* The stores the scans are run on.                                        *)

(* A whole block, the start of a message: subject, to, from, date and      *)
(* body. It decodes to 'Re: hi\r1,AL\r2,BO\rDate : 01/02/20 03:04:05       *)
(* PM\rhello there, this is the body of the message\r' and dots to the end *)
(* of the block.                                                           *)
StartPayload ==
    <<210, 101, 58, 32, 232, 233, 13, 172, 193, 204, 141, 50, 44, 194, 13,
      68, 97, 116, 101, 160, 58, 48, 49, 47, 48, 178, 175, 50, 32, 48, 51,
      58, 176, 180, 58, 53, 32, 208, 205, 13, 232, 229, 236, 111, 160, 116,
      104, 229, 242, 172, 32, 116, 232, 105, 243, 160, 243, 160, 244, 232,
      101, 160, 226, 100, 121, 32, 239, 102, 160, 244, 229, 160, 237, 101,
      115, 243, 225, 101, 141, 174, 174, 46, 174, 46, 46, 174, 174, 174, 46,
      174, 46, 46, 174, 174, 174, 46, 174, 46, 46, 174, 174, 174, 46, 174,
      46, 46, 174, 174, 174, 46, 174, 46, 46, 174, 174, 174, 46, 174, 46,
      46, 174, 174, 174, 46, 174, 46>>

(* A continuation block, null padded. It decodes to 'continued text of the *)
(* body\r'.                                                                *)
BodyPayload ==
    <<227, 111, 238, 116, 105, 238, 245, 228, 160, 244, 229, 120, 244, 160,
      230, 160, 244, 232, 101, 160, 226, 100, 121, 13, 0, 0, 0, 0, 0, 0, 0,
      0, 0, 0, 0, 0, 0, 0, 0, 0, 0, 0, 0, 0, 0, 0, 0, 0, 0, 0, 0, 0, 0, 0,
      0, 0, 0, 0, 0, 0, 0, 0, 0, 0, 0, 0, 0, 0, 0, 0, 0, 0, 0, 0, 0, 0, 0,
      0, 0, 0, 0, 0, 0, 0, 0, 0, 0, 0, 0, 0, 0, 0, 0, 0, 0, 0, 0, 0, 0, 0,
      0, 0, 0, 0, 0, 0, 0, 0, 0, 0, 0, 0, 0, 0, 0, 0, 0, 0, 0, 0, 0, 0, 0,
      0, 0, 0>>

(* A whole block of a mailbox chain: a dated message, one too short, one   *)
(* of exactly twenty characters once trimmed, and the start of a fourth.   *)
(* It decodes to 'Date : 03/04/21 01:02:03 AM\rhello from A\x04short\x04   *)
(* exactly twenty chars \x04a message that continues in the next block '   *)
(* and x to the end of the block.                                          *)
MailPayload ==
    <<68, 97, 116, 101, 160, 186, 32, 51, 47, 48, 52, 47, 178, 49, 176, 177,
      58, 48, 178, 186, 48, 32, 65, 205, 141, 104, 229, 236, 239, 32, 102,
      114, 111, 109, 160, 4, 115, 104, 111, 114, 244, 4, 160, 101, 120, 225,
      227, 244, 236, 32, 116, 119, 101, 110, 244, 121, 227, 104, 97, 114,
      115, 160, 132, 160, 109, 229, 115, 115, 225, 231, 160, 244, 232, 225,
      116, 160, 227, 110, 116, 105, 110, 117, 229, 115, 105, 238, 160, 244,
      104, 229, 160, 229, 248, 116, 32, 98, 236, 239, 107, 32, 120, 248,
      248, 248, 248, 120, 120, 120, 248, 248, 248, 248, 120, 120, 120, 248,
      248, 248, 248, 120, 120, 120, 248, 248, 248, 248>>

(* The end of the fourth message, one of nineteen characters once trimmed, *)
(* and an older dated message, null padded. It decodes to ' and ends       *)
(* here\x04  nineteen chars only \r\x04Date : 01/02/20 03:04:05 PM\rolder  *)
(* message\x04'.                                                           *)
MailTailPayload ==
    <<32, 97, 238, 100, 32, 229, 238, 115, 32, 104, 101, 114, 229, 4, 160,
      110, 233, 110, 101, 244, 229, 110, 32, 99, 104, 97, 242, 115, 111,
      110, 236, 121, 32, 13, 132, 225, 116, 101, 32, 186, 160, 48, 47, 48,
      50, 47, 178, 176, 32, 51, 58, 48, 52, 58, 176, 53, 80, 205, 13, 111,
      236, 228, 229, 160, 109, 229, 115, 115, 225, 231, 4, 0, 0, 0, 0, 0, 0,
      0, 0, 0, 0, 0, 0, 0, 0, 0, 0, 0, 0, 0, 0, 0, 0, 0, 0, 0, 0, 0, 0, 0,
      0, 0, 0, 0, 0, 0, 0, 0, 0, 0, 0, 0, 0, 0, 0, 0, 0, 0, 0, 0, 0, 0, 0,
      0, 0, 0>>

(* The start of an older message, null padded. It decodes to 'Re:          *)
(* yo\r1,AL\r2,BO\rDate : 05/06/19 07:08:09 AM\ran older message\r'.       *)
OldPayload ==
    <<210, 101, 58, 32, 249, 239, 13, 172, 193, 204, 141, 50, 44, 194, 13,
      68, 97, 116, 101, 160, 58, 176, 53, 47, 176, 182, 175, 49, 32, 48, 55,
      58, 176, 184, 58, 57, 32, 65, 77, 13, 225, 110, 239, 108, 228, 101,
      114, 160, 237, 115, 115, 97, 103, 101, 13, 0, 0, 0, 0, 0, 0, 0, 0, 0,
      0, 0, 0, 0, 0, 0, 0, 0, 0, 0, 0, 0, 0, 0, 0, 0, 0, 0, 0, 0, 0, 0, 0,
      0, 0, 0, 0, 0, 0, 0, 0, 0, 0, 0, 0, 0, 0, 0, 0, 0, 0, 0, 0, 0, 0, 0,
      0, 0, 0, 0, 0, 0, 0, 0, 0, 0, 0, 0, 0, 0, 0, 0>>

(* The start of a message whose date line holds no date, null padded. It   *)
(* decodes to 'Re: no\r1,AL\r2,BO\rDate : lost\ra message without a        *)
(* date\r'.                                                                *)
UndatedPayload ==
    <<210, 101, 58, 32, 238, 239, 13, 172, 193, 204, 141, 50, 44, 194, 13,
      68, 97, 116, 101, 160, 58, 236, 111, 243, 244, 13, 225, 160, 229, 243,
      243, 97, 231, 229, 160, 233, 116, 104, 111, 117, 244, 160, 32, 100,
      97, 116, 101, 13, 0, 0, 0, 0, 0, 0, 0, 0, 0, 0, 0, 0, 0, 0, 0, 0, 0,
      0, 0, 0, 0, 0, 0, 0, 0, 0, 0, 0, 0, 0, 0, 0, 0, 0, 0, 0, 0, 0, 0, 0,
      0, 0, 0, 0, 0, 0, 0, 0, 0, 0, 0, 0, 0, 0, 0, 0, 0, 0, 0, 0, 0, 0, 0,
      0, 0, 0, 0, 0, 0, 0, 0, 0, 0, 0, 0, 0, 0, 0>>

ZeroPayload == [b \in 1..PayloadSize |-> 0]

Payload(name) ==
    CASE name = "zero" -> ZeroPayload
      [] name = "start" -> StartPayload
      [] name = "body" -> BodyPayload
      [] name = "mail" -> MailPayload
      [] name = "tail" -> MailTailPayload
      [] name = "old" -> OldPayload
      [] name = "undated" -> UndatedPayload

(* The largest number of data blocks of a bulletin store and of a mailbox  *)
(* store, and of populated directory slots.                                *)
MaxBlocks == 3
MaxMailBlocks == 2
MaxSlots == 2

(* The directory blocks of a store.                                        *)
DirBlocks == 1

U16(n) == <<n % 256, n \div 256>>

(* A block: its payload and its next-pointer, which a link names relative  *)
(* to the block's own number b; "far" points past the last block.          *)
Link(b, link, last) ==
    CASE link = "end" -> 0
      [] link = "self" -> b
      [] link = "next" -> b + 1
      [] link = "first" -> 1
      [] link = "far" -> last + 2

Block(b, choice, last) ==
    Payload(choice.payload) \o U16(Link(b, choice.link, last))

RECURSIVE BlockBytes(_, _)
BlockBytes(blocks, b) ==
    IF b > Len(blocks) THEN <<>>
    ELSE Block(b, blocks[b], Len(blocks)) \o BlockBytes(blocks, b + 1)

Zeros(n) == [k \in 1..n |-> 0]

(* The directory: 4 bytes a slot, the block number in the last two; the    *)
(* slots past the populated ones are zero.                                 *)
RECURSIVE SlotBytes(_, _)
SlotBytes(slots, n) ==
    IF n > Len(slots) THEN <<>>
    ELSE <<0, 0>> \o U16(slots[n]) \o SlotBytes(slots, n + 1)

DirBytes(dir_blocks, slots) ==
    SubSeq(SlotBytes(slots, 1) \o Zeros(dir_blocks * BlockSize), 1,
           dir_blocks * BlockSize)

(* The bytes of a file: the header (the block counts of the bitmap and of  *)
(* the directory, then three 16-bit counts), the bitmap, the directory and *)
(* the blocks.                                                             *)
FileBytes(bitmap_blocks, dir_blocks, slots, blocks) ==
    <<bitmap_blocks, dir_blocks, 1, 0, 1, 0, 2, 0>>
        \o Zeros(bitmap_blocks * BlockSize)
        \o DirBytes(dir_blocks, slots)
        \o BlockBytes(blocks, 1)

(* All sequences of exactly n elements of S.                               *)
Tuples(n, S) == [1..n -> S]

Choice(payload, link) == [payload |-> payload, link |-> link]

BulletinChoices ==
    {Choice("start", "end"), Choice("start", "next"), Choice("start", "self"),
     Choice("body", "end"), Choice("body", "next"), Choice("body", "first"),
     Choice("zero", "end")}

BulletinStores ==
    {FileBytes(0, DirBlocks, slots, blocks) :
        slots \in Tuples(MaxSlots, 0..(MaxBlocks + 1)),
        blocks \in Tuples(MaxBlocks, BulletinChoices)}

(* One bulletin store cut short at every length around the end of its     *)
(* header, of its first directory slots and of its blocks, and the empty   *)
(* buffer.                                                                 *)
SampleBlocks == [b \in 1..MaxBlocks |-> Choice("start", "end")]

CutLengths ==
    {n \in 0..(HeaderSize + (DirBlocks + MaxBlocks) * BlockSize) :
        \/ n <= HeaderSize + 2 * EntrySize + 1
        \/ \E b \in 0..MaxBlocks, e \in {-1, 0, 1} :
              n = HeaderSize + DirBlocks * BlockSize + b * BlockSize + e}

CutStores ==
    {Slice(FileBytes(0, DirBlocks, <<1, 2>>, SampleBlocks), 0, n) :
        n \in CutLengths}

(* The mailbox stores: the first byte of a mailbox file is 4.              *)
MailChoices ==
    {Choice("mail", "end"), Choice("mail", "next"), Choice("tail", "end"),
     Choice("tail", "first"), Choice("zero", "end"), Choice("body", "far")}

MailStores ==
    {FileBytes(EmailTag, DirBlocks, slots, blocks) :
        slots \in Tuples(MaxSlots, 0..(MaxMailBlocks + 1)),
        blocks \in Tuples(MaxMailBlocks, MailChoices)}

MailSample == [b \in 1..MaxMailBlocks |-> Choice("mail", "next")]

MailCutLengths ==
    {n \in 0..(HeaderSize + (EmailTag + DirBlocks + MaxMailBlocks) * BlockSize) :
        \/ n <= HeaderSize + 1
        \/ \E e \in 0..(2 * EntrySize + 1) :
              n = HeaderSize + EmailTag * BlockSize + e
        \/ \E b \in 0..MaxMailBlocks, e \in {-1, 0, 1} :
              n = HeaderSize + (EmailTag + DirBlocks + b) * BlockSize + e}

MailCutStores ==
    {Slice(FileBytes(EmailTag, DirBlocks, <<1, 2>>, MailSample), 0, n) :
        n \in MailCutLengths}

----------------------------------------------------------------------------
(* scan_database on a bulletin store: a step is the head of the scanner,   *)
(* one of its three phases, or its return.                                 *)

collections ==
    Collections(used_blocks, active_messages, deleted_messages,
                orphaned_messages, deleted_all_blocks, all_messages, calls)

collect(acc) ==
    /\ used_blocks' = acc.used_blocks
    /\ active_messages' = acc.active_messages
    /\ deleted_messages' = acc.deleted_messages
    /\ orphaned_messages' = acc.orphaned_messages
    /\ deleted_all_blocks' = acc.deleted_all_blocks
    /\ all_messages' = acc.all_messages
    /\ calls' = acc.calls

scanVars == <<used_blocks, active_messages, deleted_messages,
              orphaned_messages, deleted_all_blocks, all_messages, calls>>

idleVars == <<fc, cd, stop, decoded>>

ScanInit ==
    /\ pc = "start"
    /\ result = None
    /\ msginfo = None
    /\ total_blocks = 0
    /\ used_blocks = {}
    /\ active_messages = <<>>
    /\ deleted_messages = <<>>
    /\ orphaned_messages = <<>>
    /\ deleted_all_blocks = {}
    /\ all_messages = <<>>
    /\ calls = <<>>
    /\ fc = None
    /\ cd = <<>>
    /\ stop = FALSE
    /\ decoded = <<>>

Init ==
    /\ data \in BulletinStores \cup CutStores
    /\ ScanInit

(* scan_database, and the head of the scanner it calls: lines 397-403,     *)
(* 187-197 and 332-343. detect_format raises on the empty buffer.          *)
scan_head(fmt, mi) ==
    IF fmt = IndexError
    THEN /\ result' = [raised |-> IndexError]
         /\ pc' = "done"
         /\ UNCHANGED <<msginfo, total_blocks>>
    ELSE IF mi = None
    THEN /\ result' = None
         /\ pc' = "done"
         /\ UNCHANGED <<msginfo, total_blocks>>
    ELSE /\ msginfo' = mi
         /\ total_blocks' = (Len(data) - mi.data_offset) \div BlockSize
         /\ pc' = IF fmt = "email" THEN "email" ELSE "phase1"
         /\ UNCHANGED result

scan_database ==
    /\ pc = "start"
    /\ scan_head(detect_format(data), read_msginfo(data))
    /\ UNCHANGED <<data, scanVars, idleVars>>

(* PHASE 1: lines 199-227.                                                 *)
phase1 ==
    /\ pc = "phase1"
    /\ collect(phase1_loop(data, msginfo, total_blocks,
                           phase1_entries(data, msginfo, total_blocks),
                           collections))
    /\ pc' = "phase2"
    /\ UNCHANGED <<data, result, msginfo, total_blocks, idleVars>>

(* PHASE 2: lines 229-262.                                                 *)
phase2 ==
    /\ pc = "phase2"
    /\ collect(phase2_loop(data, msginfo, total_blocks,
                           sorted(unused_blocks(total_blocks, used_blocks)),
                           collections))
    /\ pc' = "phase3"
    /\ UNCHANGED <<data, result, msginfo, total_blocks, idleVars>>

(* PHASE 3: lines 264-288.                                                 *)
phase3 ==
    /\ pc = "phase3"
    /\ collect(phase3_loop(data, msginfo, total_blocks,
                           sorted(unused_blocks(total_blocks, used_blocks)),
                           collections))
    /\ pc' = "finish"
    /\ UNCHANGED <<data, result, msginfo, total_blocks, idleVars>>

(* Lines 290-323: sort the deleted messages in place, collect the active   *)
(* blocks, return.                                                         *)
bulletin_return ==
    /\ pc = "finish"
    /\ deleted_messages' = sort_by_date(deleted_messages)
    /\ result' = bulletin_result(data, msginfo, total_blocks, collections,
                                 deleted_messages')
    /\ pc' = "done"
    /\ UNCHANGED <<data, msginfo, total_blocks, used_blocks, active_messages,
                   orphaned_messages, deleted_all_blocks, all_messages, calls,
                   idleVars>>

Next ==
    \/ scan_database
    \/ phase1
    \/ phase2
    \/ phase3
    \/ bulletin_return

Spec == Init /\ [][Next]_vars

----------------------------------------------------------------------------
(* scan_database on a mailbox store: the head of the scanner, then its     *)
(* loop, sort and return.                                                  *)

EmailInit ==
    /\ data \in MailStores \cup MailCutStores
    /\ ScanInit

(* Lines 345-395: all_messages is sorted in place before the return.       *)
email_return(acc, sorted_messages) ==
    /\ collect([acc EXCEPT !.all_messages = sorted_messages])
    /\ result' = email_result(msginfo, total_blocks, acc, sorted_messages)

email_sort(acc) == email_return(acc, sort_by_date(acc.all_messages))

scan_database_email ==
    /\ pc = "email"
    /\ email_sort(email_loop(data, msginfo, total_blocks,
                             email_entries(data, msginfo), collections))
    /\ pc' = "done"
    /\ UNCHANGED <<data, msginfo, total_blocks, idleVars>>

EmailNext ==
    \/ scan_database
    \/ scan_database_email

EmailSpec == EmailInit /\ [][EmailNext]_vars

----------------------------------------------------------------------------
(* scan_database on stores whose messages differ in their dates: bulletin  *)
(* stores of unclaimed message starts, dated, older and undated, and the   *)
(* mailbox stores.                                                         *)

DatedChoices ==
    {Choice("start", "end"), Choice("old", "end"), Choice("undated", "end")}

DatedStores ==
    {FileBytes(0, DirBlocks, <<>>, blocks) :
        blocks \in Tuples(MaxBlocks, DatedChoices)}

SortInit ==
    /\ data \in DatedStores \cup MailStores
    /\ ScanInit

SortNext ==
    \/ scan_database
    \/ phase1
    \/ phase2
    \/ phase3
    \/ bulletin_return
    \/ scan_database_email

SortSpec == SortInit /\ [][SortNext]_vars

----------------------------------------------------------------------------
(* scan_database on the head of a file: buffers of every length up to the  *)
(* header and a little more, of a few byte values.                         *)

MaxTail == 1

ByteValues == {0, 1, 255}

HeaderBuffers ==
    UNION {Tuples(n, ByteValues) : n \in 0..(HeaderSize + MaxTail)}

HeaderInit ==
    /\ data \in HeaderBuffers
    /\ ScanInit

HeaderNext == scan_database

HeaderSpec == HeaderInit /\ [][HeaderNext]_vars

----------------------------------------------------------------------------
(* follow_chain_with_tracking, a step a pass through its loop: the calls   *)
(* on block stores from every start block with a few stop sets. The code   *)
(* is sequential: a call that can take a step takes it.                    *)

FollowStores ==
    {FileBytes(0, DirBlocks, <<>>, blocks) :
        blocks \in Tuples(MaxBlocks, BulletinChoices)}

(* Stores cut in the middle of the last block, and in the directory,       *)
(* before the data offset.                                                 *)
FollowCutStores ==
    {Slice(FileBytes(0, DirBlocks, <<>>, blocks), 0, n) :
        blocks \in {[b \in 1..MaxBlocks |-> Choice("body", "next")],
                    [b \in 1..MaxBlocks |-> Choice("start", "self")]},
        n \in {HeaderSize + (DirBlocks + MaxBlocks) * BlockSize - PayloadSize,
               HeaderSize + EntrySize}}

(* The greatest block number a next-pointer or a directory slot can hold.  *)
MaxBlockNumber == 65535

StopSets == {{}} \cup {{b} : b \in 1..MaxBlocks}

FollowInit ==
    /\ data = <<>>
    /\ pc = "call"
    /\ result = None
    /\ msginfo = None
    /\ total_blocks = 0
    /\ used_blocks = {}
    /\ active_messages = <<>>
    /\ deleted_messages = <<>>
    /\ orphaned_messages = <<>>
    /\ deleted_all_blocks = {}
    /\ all_messages = <<>>
    /\ calls = <<>>
    /\ fc = None
    /\ cd = <<>>
    /\ stop = FALSE
    /\ decoded = <<>>

(* The call: its arguments bound, the frame set up (lines 405-414).        *)
follow_call_with(d, mi, stop_blocks, start_block) ==
    /\ pc = "call"
    /\ data' = d
    /\ msginfo' = mi
    /\ total_blocks' = (Len(d) - mi.data_offset) \div BlockSize
    /\ used_blocks' = stop_blocks
    /\ fc' = follow_enter(start_block, (Len(d) - mi.data_offset) \div BlockSize,
                          stop_blocks, mi.data_offset)
    /\ pc' = "follow"
    /\ UNCHANGED <<result, active_messages, deleted_messages,
                   orphaned_messages, deleted_all_blocks, all_messages, calls,
                   cd, stop, decoded>>

follow_call ==
    \E d \in FollowStores \cup FollowCutStores, stop_blocks \in StopSets,
       start_block \in 1..(MaxBlocks + 1) \cup {MaxBlockNumber} :
        follow_call_with(d, read_msginfo(d), stop_blocks, start_block)

followIdle == <<data, pc, result, msginfo, total_blocks, scanVars, cd, stop,
                decoded>>

(* Lines 416-462.                                                          *)
follow_step ==
    /\ pc = "follow"
    /\ fc.pc = "loop"
    /\ fc' = follow_iter(data, fc)
    /\ UNCHANGED followIdle

(* Lines 464-469.                                                          *)
follow_join ==
    /\ pc = "follow"
    /\ fc.pc = "join"
    /\ fc' = follow_return(fc)
    /\ UNCHANGED followIdle

FollowNext ==
    \/ follow_call
    \/ follow_step
    \/ follow_join

FollowSpec == FollowInit /\ [][FollowNext]_vars

----------------------------------------------------------------------------
(* decode_7bit on inputs of every length up to two groups and a remainder: *)
(* one byte value throughout, but for one byte; and on one group with      *)
(* every pattern of high bits.                                             *)

MaxCodecLen == 15

CodecValues == {0, 13, 65, 128, 141, 255}

HighBitGroups ==
    {[k \in 1..GroupSize |-> (IF k \in S THEN 128 ELSE 0) + 65] :
        S \in SUBSET (1..GroupSize)}

CodecInputs ==
    {[k \in 1..n |-> IF k = p THEN v ELSE b] :
        n \in 0..MaxCodecLen, p \in 1..MaxCodecLen,
        v \in CodecValues, b \in CodecValues}
    \cup HighBitGroups

CodecInit ==
    /\ cd \in CodecInputs
    /\ stop \in BOOLEAN
    /\ decoded = <<>>
    /\ pc = "decode"
    /\ data = <<>>
    /\ result = None
    /\ msginfo = None
    /\ total_blocks = 0
    /\ used_blocks = {}
    /\ active_messages = <<>>
    /\ deleted_messages = <<>>
    /\ orphaned_messages = <<>>
    /\ deleted_all_blocks = {}
    /\ all_messages = <<>>
    /\ calls = <<>>
    /\ fc = None

decode ==
    /\ pc = "decode"
    /\ decoded' = decode_7bit(cd, stop)
    /\ pc' = "done"
    /\ UNCHANGED <<data, result, msginfo, total_blocks, scanVars, fc, cd, stop>>

CodecNext == decode

CodecSpec == CodecInit /\ [][CodecNext]_vars

----------------------------------------------------------------------------
(* What the properties below read off the buffer and the histories.       *)

(* Block b lies whole inside the file whose data area starts at off.       *)
InFile(b, off) == b >= 1 /\ off + b * BlockSize <= Len(data)

(* The next-pointer of block b: its last two bytes, low byte first.        *)
NextPointer(b, off) ==
    data[off + b * BlockSize - 1] + 256 * data[off + b * BlockSize]

(* The text of block b decoded whole, as the codec's byte layout gives it. *)
BlockText(b, off) ==
    decode_7bit(SubSeq(data, off + (b - 1) * BlockSize + 1,
                       off + (b - 1) * BlockSize + PayloadSize), FALSE)

(* The number of characters of a text that are not white space.            *)
NonWhitespace(text) == Cardinality({k \in 1..Len(text) : text[k] \notin Spaces})

(* The block reference of directory slot n, and the slots whose entry lies *)
(* inside the file.                                                        *)
DirSlot(n) ==
    data[msginfo.dir_offset + n * EntrySize + 3]
        + 256 * data[msginfo.dir_offset + n * EntrySize + 4]

SlotsInFile ==
    {n \in 0..(msginfo.max_dir_entries - 1) :
        msginfo.dir_offset + n * EntrySize + EntrySize <= Len(data)}

(* The slots phase 1 processes and the blocks they refer to.               *)
ProcessedSlots == {n \in SlotsInFile : DirSlot(n) \in 1..total_blocks}

DirectoryBlocks == {DirSlot(n) : n \in ProcessedSlots}

(* The elements of a sequence; a sequence without a repeated element.      *)
Elements(s) == {s[i] : i \in 1..Len(s)}

NoRepeat(s) == \A i, j \in 1..Len(s) : i # j => s[i] # s[j]

AfterPhase1 == pc \in {"phase2", "phase3", "finish", "done"} /\ msginfo # None

----------------------------------------------------------------------------
(* C1: in a bulletin scan no block number is in the consumed set of two    *)
(* different follow_chain_with_tracking calls, so the blocks consumed in   *)
(* the active, the deleted and the orphaned phase are pairwise disjoint.   *)
C1_Exclusive ==
    \A i, j \in 1..Len(calls) :
        i # j => calls[i].blocks \cap calls[j].blocks = {}

(* A finished scan in which a later chain led into a block an earlier call *)
(* had consumed.                                                           *)
C1_Witness ==
    /\ pc = "done"
    /\ msginfo # None
    /\ \E i, j \in 1..Len(calls) :
          /\ i < j
          /\ calls[j].appended # <<>>
          /\ InFile(calls[j].appended[Len(calls[j].appended)],
                    msginfo.data_offset)
          /\ NextPointer(calls[j].appended[Len(calls[j].appended)],
                         msginfo.data_offset) \in calls[i].blocks

(* C2: whatever the buffer, the start block and the claimed set, cycles    *)
(* and self-references of the next-pointers included, a call of            *)
(* follow_chain_with_tracking ends, and it marks no block visited twice    *)
(* and appends no block's text twice. Every pass of the loop leaves the    *)
(* loop or visits a block the call had not visited; the blocks visited     *)
(* are never more than the blocks of the file and one; and the statements  *)
(* after the loop return.                                                  *)
C2_NoRevisit ==
    /\ NoRepeat(fc.walk)
    /\ NoRepeat(fc.appended)
    /\ Elements(fc.appended) \subseteq Elements(fc.walk)
    /\ Len(fc.walk) <= Max(fc.total_blocks, 0) + 1

C2_Pass ==
    /\ pc = "follow" /\ fc.pc = "loop" =>
          /\ \/ fc'.pc = "join"
             \/ /\ fc'.pc = "loop"
                /\ fc.current_block \notin Elements(fc.walk)
                /\ fc'.walk = Append(fc.walk, fc.current_block)
          /\ C2_NoRevisit'
    /\ pc = "follow" /\ fc.pc = "join" => fc'.pc = "done"

C2_Terminates == [][C2_Pass]_vars

(* A finished call over two blocks or more whose last block points back    *)
(* into the blocks the call had visited.                                   *)
C2_Witness ==
    /\ pc = "follow"
    /\ fc.pc = "done"
    /\ Len(fc.appended) >= 2
    /\ InFile(fc.appended[Len(fc.appended)], fc.data_offset)
    /\ NextPointer(fc.appended[Len(fc.appended)], fc.data_offset)
           \in Elements(fc.walk) \ {fc.appended[Len(fc.appended)]}

(* C3: in a bulletin scan a block that a directory slot processed in       *)
(* phase 1 refers to is never the origin block of a deleted or an orphaned *)
(* record and never in the consumed set of a phase 2 or phase 3 call, also *)
(* when its text is a message start.                                       *)
C3_ActiveOnly ==
    AfterPhase1 =>
        /\ \A i \in 1..Len(deleted_messages) :
              deleted_messages[i].block \notin DirectoryBlocks
        /\ \A i \in 1..Len(orphaned_messages) :
              orphaned_messages[i].block \notin DirectoryBlocks
        /\ \A i \in 1..Len(calls) :
              calls[i].phase \in {"deleted", "orphaned"} =>
                  /\ calls[i].block \notin DirectoryBlocks
                  /\ calls[i].blocks \cap DirectoryBlocks = {}

(* A finished scan in which a deleted or orphaned chain points into a      *)
(* directory block whose text is a message start.                          *)
C3_Witness ==
    /\ pc = "done"
    /\ msginfo # None
    /\ \E i \in 1..Len(calls) :
          /\ calls[i].phase \in {"deleted", "orphaned"}
          /\ calls[i].appended # <<>>
          /\ NextPointer(calls[i].appended[Len(calls[i].appended)],
                         msginfo.data_offset) \in DirectoryBlocks
          /\ is_message_start(
                 BlockText(NextPointer(calls[i].appended[Len(calls[i].appended)],
                                       msginfo.data_offset),
                           msginfo.data_offset))

(* The self-reference recovery of follow_chain_with_tracking. In a         *)
(* finished call, block b points to itself, and the next sequential block  *)
(* is in range, holds more than ten characters that are not white space    *)
(* and is no message start.                                                *)
SelfReference(b) ==
    /\ InFile(b, fc.data_offset)
    /\ b <= fc.total_blocks
    /\ NextPointer(b, fc.data_offset) = b

Recoverable(b) ==
    /\ b + 1 <= fc.total_blocks
    /\ InFile(b + 1, fc.data_offset)
    /\ NonWhitespace(BlockText(b + 1, fc.data_offset)) > MinProbeLen
    /\ ~is_message_start(BlockText(b + 1, fc.data_offset))

(* The call appended block b + 1 right after block b.                      *)
ExtendedAfter(b) ==
    /\ b + 1 \in fc.blocks_used
    /\ \E i \in 1..(Len(fc.appended) - 1) :
          fc.appended[i] = b /\ fc.appended[i + 1] = b + 1

(* The blocks the call had visited when it visited block b.                *)
VisitedBy(b) ==
    {fc.walk[k] : k \in {k \in 1..Len(fc.walk) :
                            \E j \in k..Len(fc.walk) : fc.walk[j] = b}}

(* C4, as the claim states it: whenever a consumed block points to itself  *)
(* and the next sequential block is in range, holds more than ten          *)
(* characters that are not white space and is no message start, the call   *)
(* consumes the sequential block and appends its text after the            *)
(* self-referencing block's.                                               *)
C4_Original ==
    pc = "follow" /\ fc.pc = "done" =>
        \A b \in fc.blocks_used :
            SelfReference(b) /\ Recoverable(b) => ExtendedAfter(b)

(* C4, as the code has it: the same of a self-referencing block whose text *)
(* the call appended, when the sequential block is also not in the claimed *)
(* set and not visited before in the call.                                 *)
C4_Extends ==
    pc = "follow" /\ fc.pc = "done" =>
        \A b \in Elements(fc.appended) :
            /\ SelfReference(b)
            /\ Recoverable(b)
            /\ b + 1 \notin fc.stop_blocks
            /\ b + 1 \notin VisitedBy(b)
            => ExtendedAfter(b)

(* A finished call that went on from a self-referencing block into the     *)
(* next sequential block.                                                  *)
C4_Witness ==
    /\ pc = "follow"
    /\ fc.pc = "done"
    /\ \E b \in Elements(fc.appended) :
          SelfReference(b) /\ Recoverable(b) /\ ExtendedAfter(b)

(* C5: for a buffer shorter than the header, the empty buffer included,    *)
(* scan_database returns the failure outcome, no message records, and      *)
(* raises no exception.                                                    *)
C5_ShortBufferFails ==
    pc = "done" /\ Len(data) < HeaderSize => result = None

(* C6: when the data offset of the header lies beyond the end of the file, *)
(* the scan reports failure instead of a scan result, with no message      *)
(* records and no allocated blocks.                                        *)
C6_FailsCleanly ==
    pc = "done" /\ msginfo # None /\ msginfo.data_offset > Len(data) =>
        result = None

----------------------------------------------------------------------------
(* What the mailbox properties read off a user's chain text.               *)

(* The segments of a text between its EOT bytes, in order.                 *)
SegmentEnd(text, a) ==
    Least({k \in a..Len(text) : text[k] = EOT} \cup {Len(text) + 1}) - 1

SegmentsFrom(text, starts) ==
    [n \in 1..Len(starts) |-> SubSeq(text, starts[n], SegmentEnd(text, starts[n]))]

Segments(text) ==
    SegmentsFrom(text, sorted({1} \cup {k + 1 : k \in {k \in 1..Len(text) :
                                                          text[k] = EOT}}))

(* A text without the white space at its two ends.                         *)
Trimmed(x) ==
    IF \A k \in 1..Len(x) : x[k] \in Spaces THEN <<>>
    ELSE SubSeq(x, Least({k \in 1..Len(x) : x[k] \notin Spaces}),
                   Greatest({k \in 1..Len(x) : x[k] \notin Spaces}))

Cleaned(segments) ==
    [n \in 1..Len(segments) |->
        Trimmed(SelectSeq(segments[n], LAMBDA c : c # NUL))]

(* The segments kept of a chain text: cleaned, and of twenty characters    *)
(* or more.                                                                *)
KeptSegments(text) ==
    SelectSeq(Cleaned(Segments(text)), LAMBDA m : Len(m) >= MinMessageLen)

(* The messages of the records returned for a user, in order.              *)
MessagesOfRecords(records) == [i \in 1..Len(records) |-> records[i].message]

MessagesOf(user_id) ==
    MessagesOfRecords(SelectSeq(result.active_messages,
                                LAMBDA r : r.user_id = user_id))

(* The date a message is sorted by.                                        *)
DateKey(m) == sort_key([date |-> parse_date(m)])

EmailDone == pc = "done" /\ msginfo # None

(* Every returned record is of a user whose chain was followed and holds   *)
(* neither an EOT nor a null.                                              *)
RecordsWellFormed ==
    \A i \in 1..Len(result.active_messages) :
        /\ \E j \in 1..Len(calls) :
              calls[j].entry = result.active_messages[i].user_id
        /\ EOT \notin Elements(result.active_messages[i].message)
        /\ NUL \notin Elements(result.active_messages[i].message)

(* C7, as the claim states it: the records of one user are exactly, in     *)
(* order, the segments of the user's chain text between EOT bytes, nulls   *)
(* removed and trimmed, of twenty characters or more; a record carries the *)
(* slot index as user id and holds no EOT and no null.                     *)
C7_Original ==
    EmailDone =>
        /\ \A j \in 1..Len(calls) :
              MessagesOf(calls[j].entry) = KeptSegments(calls[j].message)
        /\ RecordsWellFormed

(* C7, as the code has it: the returned records are in ascending order of  *)
(* their dates, those without a date first; the records of one user are    *)
(* the kept segments of the user's chain text, and those of one date are   *)
(* in the order of the segments.                                           *)
C7_SortedSegments ==
    EmailDone =>
        /\ \A j \in 1..Len(calls) :
              \A m \in Elements(MessagesOf(calls[j].entry))
                           \cup Elements(KeptSegments(calls[j].message)) :
                  SelectSeq(MessagesOf(calls[j].entry),
                            LAMBDA x : DateKey(x) = DateKey(m))
                      = SelectSeq(KeptSegments(calls[j].message),
                                  LAMBDA x : DateKey(x) = DateKey(m))
        /\ \A a, b \in 1..Len(result.active_messages) :
              a < b => ~TupleLess(sort_key(result.active_messages[b]),
                                  sort_key(result.active_messages[a]))
        /\ RecordsWellFormed

(* A finished scan of a mailbox in which a user's chain text holds a       *)
(* segment of nineteen characters, dropped, one of twenty, kept, and dated *)
(* segments the sort put in another order.                                 *)
C7_Witness ==
    /\ EmailDone
    /\ \E j \in 1..Len(calls) :
          /\ \E n \in 1..Len(Segments(calls[j].message)) :
                Len(Cleaned(Segments(calls[j].message))[n]) = MinMessageLen - 1
          /\ \E n \in 1..Len(KeptSegments(calls[j].message)) :
                Len(KeptSegments(calls[j].message)[n]) = MinMessageLen
          /\ MessagesOf(calls[j].entry) # KeptSegments(calls[j].message)
          /\ Len(MessagesOf(calls[j].entry)) >= 3

----------------------------------------------------------------------------
(* C8: phase 1 of the bulletin scan makes exactly one active record for    *)
(* each directory slot whose entry lies inside the file and whose block    *)
(* reference b has 1 <= b <= total_blocks, and no other; the records are   *)
(* in strictly ascending order of 'entry', and 'block' is the slot's       *)
(* reference.                                                              *)
C8_OnePerSlot ==
    AfterPhase1 =>
        /\ Len(active_messages) = Cardinality(ProcessedSlots)
        /\ \A i \in 1..Len(active_messages) :
              /\ active_messages[i].entry \in ProcessedSlots
              /\ active_messages[i].block = DirSlot(active_messages[i].entry)
        /\ \A i, j \in 1..Len(active_messages) :
              i < j => active_messages[i].entry < active_messages[j].entry

(* A finished scan with a record of the second slot and none of the first, *)
(* whose reference is beyond the last block.                               *)
C8_Witness ==
    /\ pc = "done"
    /\ msginfo # None
    /\ 0 \in SlotsInFile
    /\ DirSlot(0) > total_blocks
    /\ active_messages # <<>>
    /\ active_messages[1].entry = 1

(* C9: for a buffer of eight bytes or more read_msginfo gives dir_offset   *)
(* = 8 + byte0 * 128, data_offset = dir_offset + byte1 * 128 and           *)
(* max_dir_entries = (byte1 * 128) div 4, and used_blocks, msg_count and   *)
(* new_msg_num as the 16-bit values at offsets 2, 4 and 6, low byte first; *)
(* nothing of it depends on a byte after the eighth.                       *)
C9_Header ==
    pc # "start" /\ Len(data) >= 8 =>
        /\ msginfo.dir_offset = 8 + data[1] * 128
        /\ msginfo.data_offset = msginfo.dir_offset + data[2] * 128
        /\ msginfo.max_dir_entries = (data[2] * 128) \div 4
        /\ msginfo.used_blocks = data[3] + 256 * data[4]
        /\ msginfo.msg_count = data[5] + 256 * data[6]
        /\ msginfo.new_msg_num = data[7] + 256 * data[8]
        /\ msginfo = read_msginfo(SubSeq(data, 1, 8))

(* A header read off a buffer longer than the header, whose 16-bit fields  *)
(* have unlike bytes.                                                      *)
C9_Witness ==
    /\ pc # "start"
    /\ Len(data) > 8
    /\ data[9] # 0
    /\ data[1] # data[2]
    /\ data[3] = 255 /\ data[4] = 1
    /\ data[5] # data[6]
    /\ msginfo.used_blocks = 511

(* The 7-bit decoder run whole on the input cd, and the character the      *)
(* decoder gives for the low seven bits of a byte.                         *)
Decoded == pc = "done" /\ ~stop

LowBits(b) == b % 128

(* C10, as the claim states it: decoding n bytes whole gives 8 * (n div 7) *)
(* values, and the first seven of each group of eight are the low seven    *)
(* bits of the group's seven bytes, in order.                              *)
C10_Original ==
    Decoded =>
        /\ Len(decoded) = 8 * (Len(cd) \div 7)
        /\ \A g \in 0..((Len(cd) \div 7) - 1), k \in 1..7 :
              decoded[8 * g + k] = LowBits(cd[7 * g + k])

(* C10, as the code has it: the same, but that a byte whose low seven bits *)
(* are 13, a carriage return, gives 10, a line feed.                       *)
C10_LowBits ==
    Decoded =>
        /\ Len(decoded) = 8 * (Len(cd) \div 7)
        /\ \A g \in 0..((Len(cd) \div 7) - 1), k \in 1..7 :
              decoded[8 * g + k] =
                  IF LowBits(cd[7 * g + k]) = 13 THEN 10
                  ELSE LowBits(cd[7 * g + k])

(* Two groups and a remainder decoded whole, with a carriage return, with  *)
(* and without the high bit, among the bytes.                              *)
C10_Witness ==
    /\ Decoded
    /\ Len(cd) = 15
    /\ \E k \in 1..14 : cd[k] = 141
    /\ \E k \in 1..14 : cd[k] = 65
    /\ Len(decoded) = 16

(* The high bit of a byte, and the eighth character of group g of the      *)
(* input cd.                                                               *)
HighBit(b) == b \div 128

Eighth(g) == decoded[8 * g + 8]

(* C11, as the claim states it: the eighth value of each group is a 7-bit  *)
(* value with the high bit of the group's first byte as its bit 6 and the  *)
(* high bit of the seventh byte as its bit 0.                              *)
C11_Original ==
    Decoded =>
        \A g \in 0..((Len(cd) \div 7) - 1) :
            Eighth(g) = HighBit(cd[7 * g + 1]) * 64 + HighBit(cd[7 * g + 2]) * 32
                        + HighBit(cd[7 * g + 3]) * 16 + HighBit(cd[7 * g + 4]) * 8
                        + HighBit(cd[7 * g + 5]) * 4 + HighBit(cd[7 * g + 6]) * 2
                        + HighBit(cd[7 * g + 7])

(* The 7-bit value with the high bit of the group's first byte as bit 0    *)
(* and that of the seventh byte as bit 6.                                  *)
HighBitsLowFirst(g) ==
    HighBit(cd[7 * g + 1]) + HighBit(cd[7 * g + 2]) * 2
    + HighBit(cd[7 * g + 3]) * 4 + HighBit(cd[7 * g + 4]) * 8
    + HighBit(cd[7 * g + 5]) * 16 + HighBit(cd[7 * g + 6]) * 32
    + HighBit(cd[7 * g + 7]) * 64

(* C11, as the code has it: the eighth value of each group is in 0..127    *)
(* and is the high bits of the seven bytes with the first byte's as bit 0  *)
(* and the seventh byte's as bit 6, but that the value 13, a carriage      *)
(* return, gives 10, a line feed.                                          *)
C11_HighBits ==
    Decoded =>
        \A g \in 0..((Len(cd) \div 7) - 1) :
            /\ Eighth(g) \in 0..127
            /\ Eighth(g) = IF HighBitsLowFirst(g) = 13 THEN 10
                           ELSE HighBitsLowFirst(g)

(* A group decoded whose first byte alone has the high bit set.            *)
C11_Witness ==
    /\ Decoded
    /\ Len(cd) = 7
    /\ HighBit(cd[1]) = 1
    /\ \A k \in 2..7 : HighBit(cd[k]) = 0
    /\ Eighth(0) = 1

(* C12: no exception propagates out of follow_chain_with_tracking or out   *)
(* of the decoder it runs: whatever the buffer, the start block in         *)
(* 1..65535, the claimed set, and the total and data offset of the header, *)
(* a data offset beyond the end of the file included, no pass of the loop  *)
(* raises, and the call returns a text of 7-bit characters and a set of    *)
(* block numbers.                                                          *)
C12_NoException ==
    pc = "follow" =>
        /\ fc.pc # "raised"
        /\ fc.pc = "done" =>
              /\ \A k \in 1..Len(fc.full_message) : fc.full_message[k] \in 0..127
              /\ fc.blocks_used \subseteq 1..MaxBlockNumber

(* A finished call whose chain left the file: through a pointer past the   *)
(* last block, or from the start, in a file that ends before its data      *)
(* offset.                                                                 *)
C12_Witness ==
    /\ pc = "follow"
    /\ fc.pc = "done"
    /\ \E b \in fc.blocks_used : ~InFile(b, fc.data_offset)
    /\ \/ fc.appended # <<>>
       \/ fc.data_offset > Len(data)

----------------------------------------------------------------------------
(* The records of a list are in ascending order of their sort keys, a      *)
(* record without a date having the key datetime.min.                      *)
Ascending(records) ==
    \A a, b \in 1..Len(records) :
        a < b => ~TupleLess(sort_key(records[b]), sort_key(records[a]))

SortDone == pc = "done" /\ msginfo # None

(* C13: the Deleted list of a bulletin scan and the message list of an     *)
(* email scan are returned in ascending order of the date, a record        *)
(* without a date sorting as the earliest date; records of equal key keep  *)
(* the order they were made in: ascending origin block for the Deleted     *)
(* list, ascending user id and then the order of the segments for the      *)
(* email list.                                                             *)
C13_SortedStable ==
    SortDone =>
        /\ Ascending(result.deleted_messages)
        /\ \A a, b \in 1..Len(result.deleted_messages) :
              (a < b /\ sort_key(result.deleted_messages[a])
                            = sort_key(result.deleted_messages[b]))
                  => result.deleted_messages[a].block
                         < result.deleted_messages[b].block
        /\ result.format = "email" =>
              /\ Ascending(result.active_messages)
              /\ \A a, b \in 1..Len(result.active_messages) :
                    (a < b /\ sort_key(result.active_messages[a])
                                  = sort_key(result.active_messages[b]))
                        => result.active_messages[a].user_id
                               <= result.active_messages[b].user_id
              /\ \A j \in 1..Len(calls) :
                    \A m \in Elements(KeptSegments(calls[j].message)) :
                        SelectSeq(MessagesOf(calls[j].entry),
                                  LAMBDA x : DateKey(x) = DateKey(m))
                            = SelectSeq(KeptSegments(calls[j].message),
                                        LAMBDA x : DateKey(x) = DateKey(m))

(* A finished bulletin scan whose Deleted list holds an undated record of  *)
(* block 2 before two records of one date, of blocks 1 and 3.              *)
C13_Witness ==
    /\ SortDone
    /\ result.format = "bulletin"
    /\ Len(result.deleted_messages) = 3
    /\ result.deleted_messages[1].date = NoDate
    /\ result.deleted_messages[1].block = 2
    /\ result.deleted_messages[2].block = 1
    /\ result.deleted_messages[3].block = 3
    /\ result.deleted_messages[2].date = result.deleted_messages[3].date

----------------------------------------------------------------------------
(* C14: in a file of one block or more a call of                           *)
(* follow_chain_with_tracking marks at most total_blocks block numbers     *)
(* visited, whatever the next-pointers, those that lead past the last      *)
(* block included.                                                         *)
C14_AtMostTotalBlocks ==
    (pc = "follow" /\ fc.total_blocks >= 1) =>
        Cardinality(fc.visited) <= fc.total_blocks

----------------------------------------------------------------------------
(* C15: the blocks_used a call of follow_chain_with_tracking builds and    *)
(* returns hold no block of the stop_blocks it was called with, whether    *)
(* the block is reached through a next-pointer or through the probe of a   *)
(* self-reference; a call whose start block is in stop_blocks returns the  *)
(* empty text and the empty set.                                           *)
C15_StopsBeforeClaimed ==
    pc = "follow" =>
        /\ fc.blocks_used \cap fc.stop_blocks = {}
        /\ Elements(fc.appended) \cap fc.stop_blocks = {}
        /\ (fc.pc = "done" /\ fc.start_block \in fc.stop_blocks) =>
              /\ fc.full_message = <<>>
              /\ fc.blocks_used = {}

(* A finished call that stopped at a self-referencing block whose next     *)
(* sequential block was claimed, and would have passed the probe if not.   *)
C15_Witness ==
    /\ pc = "follow"
    /\ fc.pc = "done"
    /\ fc.appended # <<>>
    /\ SelfReference(fc.appended[Len(fc.appended)])
    /\ fc.appended[Len(fc.appended)] + 1 \in fc.stop_blocks
    /\ Recoverable(fc.appended[Len(fc.appended)])

----------------------------------------------------------------------------
(* The characters of a text that are neither white space nor null padding. *)
Content(text) ==
    Cardinality({k \in 1..Len(text) : text[k] \notin Spaces \cup {NUL}})

(* The block after block b can take the chain on: it is a block of the     *)
(* file, not claimed, holds more than ten characters of content and is no  *)
(* message start.                                                          *)
Resumable(b) ==
    /\ b + 1 <= fc.total_blocks
    /\ InFile(b + 1, fc.data_offset)
    /\ b + 1 \notin fc.stop_blocks
    /\ Content(BlockText(b + 1, fc.data_offset)) > MinProbeLen
    /\ ~is_message_start(BlockText(b + 1, fc.data_offset))

(* C16: a call that appended a block whose next-pointer is its own number  *)
(* goes on to the next sequential block only if that block is in range,    *)
(* not claimed, holds more than ten characters that are not white space    *)
(* and is no message start; otherwise, as when the sequential block is all *)
(* null padding, the self-referencing block is the last block the call     *)
(* visited.                                                                *)
C16_StopsAtSelfReference ==
    (pc = "follow" /\ fc.pc = "done") =>
        \A i \in 1..Len(fc.appended) :
            (SelfReference(fc.appended[i]) /\ ~Resumable(fc.appended[i]))
                => fc.walk[Len(fc.walk)] = fc.appended[i]

----------------------------------------------------------------------------
(* Block b is a block of the file that the call can read.                  *)
Readable(b) == b <= fc.total_blocks /\ InFile(b, fc.data_offset)

(* The text of a sequence of blocks, the leading nulls of every block but  *)
(* the first removed, joined and cut at the first null.                    *)
TextOfBlocks(blocks, off) ==
    joined(join([i \in 1..Len(blocks) |->
                    IF i = 1 THEN BlockText(blocks[i], off)
                    ELSE lstrip(BlockText(blocks[i], off), {NUL})]))

TextOfAppended == TextOfBlocks(fc.appended, fc.data_offset)

(* C17: a block a call reaches after its first that is a message start is  *)
(* the last block the call visits; its text is not appended, so the text   *)
(* returned is that of the blocks before it; the first block is appended   *)
(* whether it is a message start or not.                                   *)
C17_StopsBeforeMessageStart ==
    (pc = "follow" /\ fc.pc = "done") =>
        /\ \A k \in 2..Len(fc.walk) :
              (/\ Readable(fc.walk[k])
               /\ is_message_start(BlockText(fc.walk[k], fc.data_offset)))
                  => /\ k = Len(fc.walk)
                     /\ fc.walk[k] \notin Elements(fc.appended)
                     /\ fc.appended = SubSeq(fc.walk, 1, k - 1)
        /\ (fc.walk # <<>> /\ Readable(fc.walk[1])) =>
              /\ fc.appended # <<>>
              /\ fc.appended[1] = fc.walk[1]
        /\ fc.full_message = TextOfAppended

(* A finished call that started at a message start, appended it, and       *)
(* stopped at a second message start that the first points to.             *)
C17_Witness ==
    /\ pc = "follow"
    /\ fc.pc = "done"
    /\ Len(fc.walk) >= 2
    /\ fc.appended = SubSeq(fc.walk, 1, Len(fc.walk) - 1)
    /\ Readable(fc.walk[Len(fc.walk)])
    /\ is_message_start(BlockText(fc.walk[Len(fc.walk)], fc.data_offset))
    /\ is_message_start(BlockText(fc.walk[1], fc.data_offset))

----------------------------------------------------------------------------
(* The payload of block b of the scanned file and the number of its bytes  *)
(* that are not zero.                                                      *)
PayloadOf(b) ==
    SubSeq(data, msginfo.data_offset + (b - 1) * BlockSize + 1,
           msginfo.data_offset + (b - 1) * BlockSize + PayloadSize)

NonZeroBytes(b) == Cardinality({k \in 1..PayloadSize : PayloadOf(b)[k] # 0})

(* The blocks claimed when phase 2 examines block b: those the calls of    *)
(* phase 1 consumed and those the calls of phase 2 from lower blocks did.  *)
ClaimedBefore(b) ==
    UNION {calls[j].blocks :
              j \in {j \in 1..Len(calls) :
                        \/ calls[j].phase = "active"
                        \/ calls[j].phase = "deleted" /\ calls[j].block < b}}

DeletedHead(b) ==
    /\ b \notin ClaimedBefore(b)
    /\ NonZeroBytes(b) >= MinNonNull
    /\ is_message_start(decode_7bit(PayloadOf(b), TRUE))

AfterPhase2 == pc \in {"phase3", "finish", "done"} /\ msginfo # None

(* C18: phase 2 of the bulletin scan makes a Deleted record of origin b    *)
(* exactly for the blocks b of the file that, when the loop comes to them  *)
(* in ascending order, are not claimed by phase 1 or by the phase 2 calls  *)
(* from lower blocks, hold ten bytes or more that are not zero, and whose  *)
(* text decoded up to the first null is a message start; one record a      *)
(* block, made in ascending order of the blocks.                           *)
C18_DeletedHeads ==
    AfterPhase2 =>
        /\ Blocks(deleted_messages) = {b \in 1..total_blocks : DeletedHead(b)}
        /\ Len(deleted_messages) = Cardinality(Blocks(deleted_messages))
        /\ \A i, j \in 1..Len(calls) :
              (i < j /\ calls[i].phase = "deleted" /\ calls[j].phase = "deleted")
                  => calls[i].block < calls[j].block
        /\ pc # "done" =>
              \A i, j \in 1..Len(deleted_messages) :
                  i < j => deleted_messages[i].block < deleted_messages[j].block

(* Phase 2 is over with a Deleted record, a block with data that is no     *)
(* message start and has none, and a message start that has none because   *)
(* an earlier phase 2 call had claimed it.                                 *)
C18_Witness ==
    /\ pc = "phase3"
    /\ msginfo # None
    /\ deleted_messages # <<>>
    /\ \E b \in 1..total_blocks :
          /\ NonZeroBytes(b) >= MinNonNull
          /\ ~is_message_start(decode_7bit(PayloadOf(b), TRUE))
          /\ b \notin ClaimedBefore(b)
    /\ \E b \in 1..total_blocks :
          /\ is_message_start(decode_7bit(PayloadOf(b), TRUE))
          /\ b \notin Blocks(deleted_messages)
          /\ \E j \in 1..Len(calls) :
                calls[j].phase = "deleted" /\ b \in calls[j].blocks

----------------------------------------------------------------------------
(* The calls of the scan that consumed block b.                            *)
ConsumersOf(b) == {j \in 1..Len(calls) : b \in calls[j].blocks}

BulletinDone == pc = "done" /\ msginfo # None /\ result.format = "bulletin"

(* C19: when a bulletin scan is over, every block of the file whose        *)
(* payload holds ten bytes or more that are not zero is in the consumed    *)
(* set of exactly one record's call, active, deleted or orphaned; a block  *)
(* no call consumed holds fewer than ten.                                  *)
C19_DataBlocksClaimedOnce ==
    BulletinDone =>
        /\ Len(calls) = Len(result.active_messages)
                            + Len(result.deleted_messages)
                            + Len(result.orphaned_messages)
        /\ \A b \in 1..total_blocks :
              /\ NonZeroBytes(b) >= MinNonNull =>
                    Cardinality(ConsumersOf(b)) = 1
              /\ b \notin used_blocks => NonZeroBytes(b) < MinNonNull
              /\ b \in used_blocks <=> ConsumersOf(b) # {}

(* A finished scan with an orphaned record, a second record, and a block   *)
(* of zeros that no call consumed.                                         *)
C19_Witness ==
    /\ BulletinDone
    /\ result.orphaned_messages # <<>>
    /\ Len(calls) >= 2
    /\ \E b \in 1..total_blocks : b \notin used_blocks

----------------------------------------------------------------------------
(* The blocks the chain of call j leads to: its start block and the blocks *)
(* the next-pointers of the blocks it appended point to.                   *)
LeadsTo(j) ==
    {calls[j].block}
        \cup {NextPointer(calls[j].appended[k], msginfo.data_offset) :
                 k \in 1..Len(calls[j].appended)}

ActiveCalls == {j \in 1..Len(calls) : calls[j].phase = "active"}

(* C20: phase 1 of the bulletin scan makes its calls in ascending order of *)
(* the directory slots, and a call is given the blocks every earlier call  *)
(* consumed as claimed; so when the chain of a later slot leads to a block *)
(* an earlier slot's call consumed, the block stays with the earlier slot  *)
(* only: the later call neither consumes it nor appends its text, and the  *)
(* later record's text is that of the blocks it appended.                  *)
C20_EarlierSlotWins ==
    AfterPhase1 =>
        \A i, j \in ActiveCalls :
            i < j =>
                /\ calls[i].entry < calls[j].entry
                /\ calls[i].blocks \subseteq calls[j].stop_blocks
                /\ calls[i].blocks \cap calls[j].blocks = {}
                /\ calls[i].blocks \cap Elements(calls[j].appended) = {}
                /\ calls[j].message
                       = TextOfBlocks(calls[j].appended, msginfo.data_offset)
                /\ active_messages[j].message = calls[j].message

(* Phase 1 is over, and the chain of a later slot, after a block of its    *)
(* own, pointed to a block that an earlier slot's call had consumed.       *)
C20_Witness ==
    /\ AfterPhase1
    /\ \E i, j \in ActiveCalls :
          /\ i < j
          /\ calls[j].appended # <<>>
          /\ calls[j].message # <<>>
          /\ LeadsTo(j) \cap calls[i].blocks # {}
          /\ \E b \in LeadsTo(j) \cap calls[i].blocks :
                b \notin Elements(calls[j].walk)

----------------------------------------------------------------------------
(* C21: when a bulletin scan is over, the reported active_all_blocks hold  *)
(* the origin block of every active record and every block a phase 1 call  *)
(* consumed, those the probe of a self-reference led to included.          *)
C21_ActiveAllBlocks ==
    BulletinDone =>
        /\ Blocks(result.active_messages) \subseteq result.active_all_blocks
        /\ \A j \in ActiveCalls :
              calls[j].blocks \subseteq result.active_all_blocks

----------------------------------------------------------------------------
(* The texts of the blocks a call appended, the leading nulls of every     *)
(* block but the first removed, one after the other.                       *)
RECURSIVE TextsInOrder(_, _)
TextsInOrder(blocks, k) ==
    IF k > Len(blocks) THEN <<>>
    ELSE (IF k = 1 THEN BlockText(blocks[k], fc.data_offset)
          ELSE lstrip(BlockText(blocks[k], fc.data_offset), {NUL}))
             \o TextsInOrder(blocks, k + 1)

(* The place of the first character of the k-th appended block's text in   *)
(* the texts in order.                                                     *)
PlaceOf(k) == Len(TextsInOrder(SubSeq(fc.appended, 1, k - 1), 1)) + 1

(* C22: the text a call of follow_chain_with_tracking returns holds no     *)
(* null: it is the texts of the appended blocks in order, up to the first  *)
(* null of them; a block whose text comes after that null adds nothing to  *)
(* the text returned, and is in the consumed set all the same.             *)
C22_CutAtFirstNull ==
    (pc = "follow" /\ fc.pc = "done") =>
        /\ NUL \notin Elements(fc.full_message)
        /\ Len(fc.full_message) <= Len(TextsInOrder(fc.appended, 1))
        /\ fc.full_message
               = SubSeq(TextsInOrder(fc.appended, 1), 1, Len(fc.full_message))
        /\ Len(fc.full_message) < Len(TextsInOrder(fc.appended, 1)) =>
              TextsInOrder(fc.appended, 1)[Len(fc.full_message) + 1] = NUL
        /\ Elements(fc.appended) \subseteq fc.blocks_used

(* A finished call that appended two blocks or more, the last one with     *)
(* text of its own, all of it after the first null of the texts.           *)
C22_Witness ==
    /\ pc = "follow"
    /\ fc.pc = "done"
    /\ Len(fc.appended) >= 2
    /\ PlaceOf(Len(fc.appended)) > Len(fc.full_message) + 1
    /\ Content(BlockText(fc.appended[Len(fc.appended)], fc.data_offset)) > 0
    /\ fc.appended[Len(fc.appended)] \in fc.blocks_used

----------------------------------------------------------------------------
(* The scanned file with every byte of its directory set to zero: what is  *)
(* left of it is the header and the data blocks.                           *)
WithoutDirectory ==
    [k \in 1..Len(data) |->
        IF k > msginfo.dir_offset /\ k <= msginfo.data_offset THEN 0
        ELSE data[k]]

(* What a call from block b finds in the data blocks alone, no block       *)
(* claimed.                                                                *)
ChainAlone(b) ==
    follow_chain_with_tracking(WithoutDirectory, b, total_blocks, {},
                               msginfo.data_offset)

(* The records returned for a user, in order.                              *)
RecordsOf(user_id) ==
    SelectSeq(result.active_messages, LAMBDA r : r.user_id = user_id)

(* C23: in a scan of a mailbox the records of a user are those of the      *)
(* chain from the block the user's own slot refers to, followed in the     *)
(* data blocks with no block claimed, whatever the other slots hold; so a  *)
(* block that the chains of two users reach gives its text to both.        *)
C23_UsersIndependent ==
    (EmailDone /\ result.format = "email") =>
        /\ \A j \in 1..Len(calls) :
              /\ calls[j].block = DirSlot(calls[j].entry)
              /\ calls[j].blocks = ChainAlone(calls[j].block).blocks_used
              /\ calls[j].message = ChainAlone(calls[j].block).full_message
              /\ RecordsOf(calls[j].entry)
                     = sort_by_date(user_messages(calls[j].entry,
                                                  ChainAlone(calls[j].block)
                                                      .full_message))
        /\ \A i \in 1..Len(result.active_messages) :
              \E j \in 1..Len(calls) :
                  calls[j].entry = result.active_messages[i].user_id

(* A finished scan of a mailbox with two users whose chains appended the   *)
(* same block, each with records of its own.                               *)
C23_Witness ==
    /\ EmailDone
    /\ result.format = "email"
    /\ \E i, j \in 1..Len(calls) :
          /\ i < j
          /\ Elements(calls[i].appended) \cap Elements(calls[j].appended) # {}
          /\ RecordsOf(calls[i].entry) # <<>>
          /\ RecordsOf(calls[j].entry) # <<>>

----------------------------------------------------------------------------
(* The blocks call j came to after its first block, unclaimed, and stopped *)
(* at because their text is a message start.                               *)
FalseContinuations(j) ==
    {calls[j].walk[k] :
        k \in {k \in 2..Len(calls[j].walk) :
                  /\ calls[j].walk[k] <= total_blocks
                  /\ is_message_start(BlockText(calls[j].walk[k],
                                                msginfo.data_offset))}}

(* C24: a message start that the chain of an active or a deleted record    *)
(* runs into, unclaimed until then, is not in the consumed set of that     *)
(* record's call: it stays unclaimed, and only a call that starts at it,   *)
(* for a record of its own, consumes it.                                   *)
C24_FalseContinuationUnclaimed ==
    BulletinDone =>
        \A j \in 1..Len(calls) :
            calls[j].phase \in {"active", "deleted"} =>
                \A b \in FalseContinuations(j) :
                    /\ b \notin calls[j].blocks
                    /\ \A i \in ConsumersOf(b) : calls[i].block = b

----------------------------------------------------------------------------
(* C25: every block number a call of follow_chain_with_tracking consumed   *)
(* is a block of the file, one of 1..total_blocks, and so is every number  *)
(* in the scanner's used_blocks and in the sets it reports: the            *)
(* allocated_blocks of a mailbox, the deleted_all_blocks and the           *)
(* active_all_blocks of a bulletin store.                                  *)
C25_BlocksInRange ==
    (pc = "done" /\ msginfo # None) =>
        /\ \A j \in 1..Len(calls) : calls[j].blocks \subseteq 1..total_blocks
        /\ used_blocks \subseteq 1..total_blocks
        /\ IF result.format = "email"
           THEN result.allocated_blocks \subseteq 1..total_blocks
           ELSE /\ result.deleted_all_blocks \subseteq 1..total_blocks
                /\ result.active_all_blocks \subseteq 1..total_blocks

----------------------------------------------------------------------------
(* The counts of the breakdown cmd_analyze prints, added up.               *)
BreakdownSum ==
    Cardinality(active_header_blocks(result))
        + Cardinality(active_chain_blocks(result))
        + Cardinality(deleted_header_blocks(result))
        + Cardinality(deleted_chain_blocks(result))
        + Cardinality(result.orphaned_blocks)
        + analyze_unused_blocks(result)

(* C26: the block breakdown of a bulletin scan's result is a partition of  *)
(* the data area: active_all_blocks, deleted_all_blocks and                *)
(* orphaned_blocks are pairwise disjoint, the six counts add up to         *)
(* total_blocks, and the count of unused blocks is not negative; stated of *)
(* files of one block or more.                                             *)
C26_BreakdownIsPartition ==
    (BulletinDone /\ result.total_blocks >= 1) =>
        /\ result.active_all_blocks \cap result.deleted_all_blocks = {}
        /\ result.active_all_blocks \cap result.orphaned_blocks = {}
        /\ result.deleted_all_blocks \cap result.orphaned_blocks = {}
        /\ BreakdownSum = result.total_blocks
        /\ analyze_unused_blocks(result) >= 0

============================================================================
